---------------------------- MODULE Spec2Model ----------------------------
(***************************************************************************)
(* Model of the sensei event-handling core: the serial frontend (packet    *)
(* verification, reader and writer loops), the mapping processor, the      *)
(* Raspa frontend's acknowledged writer and the event dispatcher.          *)
(*                                                                         *)
(* Each component has its own specification over the shared variables; a   *)
(* specification leaves the other components' variables at their idle      *)
(* values.                                                                 *)
(***************************************************************************)
EXTENDS Integers, Sequences, FiniteSets, TLC

VARIABLES
    \* ---- verify_message harness (serial_frontend.cpp:22-34)
    packet,             \* the sSenseiDataPacket handed to verify_message
    verify_result,      \* "none" before the call, then "accept" / "reject"
    \* ---- mapping processor (mapping_processor.cpp)
    mappers,            \* _mappers: pin index -> mapper, NullMapper if absent
    map_cmd,            \* the command of the last apply_command call
    map_status,         \* its return value, "none" before the first call
    map_delegated,      \* whether that call reached the mapper's apply_command
    map_prev,           \* _mappers as they were before that call
    pin_type_applied,   \* history: whether a SET_PIN_TYPE was applied to the pin
    last_ok_type,       \* history: pin type of the last SET_PIN_TYPE that returned OK
    \* ---- serial frontend (serial_frontend.cpp)
    read_thread_state,  \* _read_thread_state
    write_thread_state, \* _write_thread_state
    muted,              \* _muted
    in_queue,           \* *_in_queue: commands to the frontend
    out_queue,          \* *_out_queue: messages to the event handler
    buffer,             \* read_loop's buffer after the last read
    wire,               \* the packets handed to sp_nonblocking_write that reached the port
    rpc,                \* position of the reader thread
    wpc,                \* position of the writer thread
    cpc,                \* position of the thread calling run(), stop() and mute()
    pushed,             \* history: every command pushed onto in_queue, in order
    n_reads,            \* history: number of reads that returned data
    \* ---- Raspa frontend, writer with ack verification (raspa_frontend.h)
    raspa_in_queue,     \* *_in_queue: commands to the frontend
    send_list,          \* _send_list: packets waiting to be sent
    tracked,            \* ack tracker: the packet in flight, NoXmosPacket if none
    ready_to_send,      \* _ready_to_send
    pending_sequence_number, \* _pending_sequence_number
    verify_acks,        \* _verify_acks
    retries,            \* ack tracker: attempts made for the packet in flight
    next_sequence_number, \* sequence number of the next packet created
    raspa_wire,         \* packets sent on _out_socket, in order
    acks,               \* sequence numbers of the acks waiting on _in_socket
    raspa_out_queue,    \* *_out_queue: messages to the event handler
    outcome,            \* history: sequence number -> unsent, pending, acked, timeout
    \* ---- event handler, the dispatcher (event_handler.h)
    event_queue,        \* _event_queue
    to_frontend_queue,  \* _to_frontend_queue
    handling,           \* the message handle_events is routing, NoEvent if none
    routed,             \* history: the messages whose routing completed, in order
    forwarded,          \* history: the commands put on _to_frontend_queue, in order
    n_events,           \* history: number of messages pushed onto _event_queue
    \* ---- create_send_command applied to a command (serial_frontend.cpp:216-287)
    enc_command,        \* the Command handed to create_send_command
    enc_packet,         \* the packet it returned
    enc_decoded,        \* create_internal_message of that packet
    enc_pc,             \* "none", "command", "encoded", "decoded"
    \* ---- put_config_commands_into replayed on a fresh processor
    \*      (mapping_processor.cpp:74-83)
    config_commands,    \* the commands put_config_commands_into emitted
    replayed,           \* number of them applied to the fresh processor
    fresh_mappers,      \* _mappers of the fresh processor
    fresh_ok,           \* every apply_command on the fresh processor returned OK
    config_pc,          \* "none", "apply", "replay"
    \* ---- EventHandler::reload_config (event_handler.h:34-38)
    hwc,                \* the local HwFrontendConfig, "none" until read
    n_reloads,          \* history: number of reload_config calls
    \* ---- GPIO socket backend (gpio_hw_socket.h)
    connected,          \* _connected
    gpio_call,          \* the last call: "none", "init", "reconnect", "send",
                        \* "receive", "get_status"
    gpio_result,        \* its return value (TRUE for the void calls)
    was_connected,      \* history: _connected before the last call
    n_gpio_calls,       \* history: number of calls made
    gpio_sent,          \* history: number of packets sent
    gpio_received,      \* history: number of packets received
    \* ---- calculate_crc applied to a packet (serial_frontend_internal.h:43-53)
    crc_packet,         \* the sSenseiDataPacket handed to calculate_crc
    crc_result,         \* its return value, -1 before the call
    \* ---- MessageConcatenator (serial_frontend_internal.h:187-216)
    waiting,            \* _waiting
    storage,            \* _storage, 2 * SENSEI_PAYLOAD_LENGTH bytes
    concat_packet,      \* the packet of the last add call
    concat_result,      \* the buffer add returned, <<>> for nullptr
    was_waiting,        \* history: _waiting before the last call
    last_half,          \* history: payload of the last continuation packet added
    n_adds,             \* history: number of add calls
    \* ---- extract_uuid applied to a data packet and to an ack packet
    \*      (serial_frontend_internal.h:58-75)
    uuid_data,          \* timestamp, cmd, sub_cmd of the sSenseiDataPacket
    uuid_ack,           \* timestamp, cmd, sub_cmd of the sSenseiACKPacket
    uuid_of_data,       \* extract_uuid(packet), <<>> before the call
    uuid_of_ack,        \* extract_uuid(ack), <<>> before the call
    \* ---- MappingProcessor::process (mapping_processor.cpp:85-97)
    proc_value,         \* the Value of the last process call, NoValue before
    proc_unmapped,      \* history: its index was out of range or its slot null
    proc_oob,           \* history: the call read _mappers outside the array
    proc_outcome,       \* "none", "logged", "mapper", "crashed"
    backend_sent,       \* what the call sent to the output backend
    proc_kept,          \* history: the call left _mappers as they were
    \* ---- a second thread calling run() and stop() on the serial frontend
    \*      (serial_frontend.cpp:70-96)
    cpc2,               \* position of the second calling thread
    overlap,            \* history: the role ("reader", "writer") of a thread
                        \* started while the previous thread of that role had
                        \* not exited, "none" if there was none
    calls,              \* history: what the owner's last two run() and stop()
                        \* calls did: "run", "run_noop", "stop", "stop_noop"
    started,            \* history: the roles of the threads the owner's last
                        \* run() started, in order
    \* ---- the Raspa frontend's flags and the threads that touch them
    \*      (raspa_frontend.h:96-110)
    flag_value,         \* _state, _connected, _muted, _verify_acks
    accessing,          \* thread -> the access to a flag it is in the middle of
    raced               \* history: the flags two threads accessed at the same
                        \* time, one of them writing, without synchronisation

verifyVars == <<packet, verify_result>>
mapVars == <<mappers, map_cmd, map_status, map_delegated, map_prev,
             pin_type_applied, last_ok_type>>
serialVars == <<read_thread_state, write_thread_state, muted, in_queue, out_queue,
                buffer, wire, rpc, wpc, cpc, pushed, n_reads>>

raspaVars == <<raspa_in_queue, send_list, tracked, ready_to_send, pending_sequence_number,
               verify_acks, retries, next_sequence_number, raspa_wire, acks,
               raspa_out_queue, outcome>>

dispatchVars == <<event_queue, to_frontend_queue, handling, routed, forwarded,
                  n_events>>

encodeVars == <<enc_command, enc_packet, enc_decoded, enc_pc>>

configVars == <<config_commands, replayed, fresh_mappers, fresh_ok, config_pc>>

reloadVars == <<hwc, n_reloads>>

gpioVars == <<connected, gpio_call, gpio_result, was_connected, n_gpio_calls,
              gpio_sent, gpio_received>>

crcVars == <<crc_packet, crc_result>>

concatVars == <<waiting, storage, concat_packet, concat_result, was_waiting,
                last_half, n_adds>>

uuidVars == <<uuid_data, uuid_ack, uuid_of_data, uuid_of_ack>>

processVars == <<proc_value, proc_unmapped, proc_oob, proc_outcome, backend_sent,
                 proc_kept>>

lifeVars == <<cpc2, overlap, calls, started>>

raceVars == <<flag_value, accessing, raced>>

vars == <<verifyVars, mapVars, serialVars, raspaVars, dispatchVars,
          encodeVars,
          configVars,
          reloadVars,
          gpioVars,
          crcVars,
          concatVars,
          uuidVars,
          processVars,
          lifeVars,
          raceVars>>

(***************************************************************************)
(* Bounds of the model                                                     *)
(***************************************************************************)
\* header bytes of an input packet differ from the magic by at most this
MaxHeaderDev == 1
\* the crc field of an input packet is the checksum plus 0..MaxCrcDev
MaxCrcDev == 1
\* MappingProcessor(max_n_input_pins): the number of pins
max_n_pins == 2
\* configuration values carried by per-pin commands are 0..MaxData
MaxData == 1
\* at most MaxEvents messages are pushed onto the event queue
MaxEvents == 3
\* at most MaxAdds calls of MessageConcatenator::add
MaxAdds == 4
\* at most MaxGpioCalls calls on the GPIO socket backend
MaxGpioCalls == 4
\* at most MaxReloads calls of reload_config
MaxReloads == 2
\* at most MaxCommands commands are pushed onto the to-frontend queue
MaxCommands == 2
\* at most MaxReads reads of the serial port return data
MaxReads == 2
\* at most MaxRaspaCommands commands are handed to the Raspa frontend
MaxRaspaCommands == 3
\* attempts made to send one packet before the timeout error is raised
MaxAttempts == 2

(***************************************************************************)
(* Serial wire packet: sSenseiDataPacket                                   *)
(*   start_header[3] cmd sub_cmd payload[49] continuation timestamp(u32)   *)
(*   crc(u16) stop_header[3], 64 bytes, packed                             *)
(***************************************************************************)
SENSEI_PAYLOAD_LENGTH == 49

START_SIGNATURE == <<1, 2, 3>>
STOP_SIGNATURE == <<4, 5, 6>>

\* Command and pin type codes of the wire protocol.  The protocol header is
\* not among the sources; the codes below are distinct bytes, cmd 255 being
\* the command byte of the unit test's value packet.
SENSEI_CMD_GET_VALUE == 255
SENSEI_CMD_GET_ALL_VALUES == 254
SENSEI_CMD_ACK == 250
SENSEI_CMD_OTHER == 1
PIN_DIGITAL_INPUT == 1
PIN_ANALOG_INPUT == 3
PIN_OTHER == 0
\* command and sub command bytes of the unit test's IMU packet (imu_test)
SENSEI_CMD_IMU == 253
IMU_SUB_CMD == 2

RECURSIVE SumSeq(_)
SumSeq(s) == IF s = <<>> THEN 0 ELSE Head(s) + SumSeq(Tail(s))

ZeroBytes(n) == [i \in 1..n |-> 0]

\* little-endian bytes of an unsigned value of n bytes
LEBytes(v, n) == [i \in 1..n |-> (v \div (256 ^ (i - 1))) % 256]

\* the bytes calculate_crc scans from packet->payload on:
\* payload, continuation, timestamp
ScannedBytes(p) == p.payload \o <<p.continuation>> \o LEBytes(p.timestamp, 4)

\* int compare_packet_header(lhv, rhv): the sum of the bytewise differences
compare_packet_header(lhv, rhv) ==
    (lhv[1] - rhv[1]) + (lhv[2] - rhv[2]) + (lhv[3] - rhv[3])

\* mutant: the loop stops at the end of the payload
calculate_crc_payload_only(p) == (p.cmd + p.sub_cmd + SumSeq(p.payload)) % 65536

\* uint16_t calculate_crc(packet)
calculate_crc(p) == (p.cmd + p.sub_cmd + SumSeq(ScannedBytes(p))) % 65536

\* bool verify_message(packet)
verify_message(p) ==
    IF compare_packet_header(p.start_header, START_SIGNATURE) # 0
       \/ compare_packet_header(p.stop_header, STOP_SIGNATURE) # 0
    THEN FALSE
    ELSE IF calculate_crc(p) # p.crc
         THEN FALSE
         ELSE TRUE

\* teensy_value_msg, packed: pin_id(u16) value(u16) pin_type(u8), zero padded
ValuePayload(pin_id, value, pin_type) ==
    LEBytes(pin_id, 2) \o LEBytes(value, 2) \o <<pin_type>>
        \o ZeroBytes(SENSEI_PAYLOAD_LENGTH - 5)

MakePacket(sh, cmd, sub, payload, cont, ts, crcdev, eh) ==
    LET body == [start_header |-> sh, cmd |-> cmd, sub_cmd |-> sub,
                 payload |-> payload, continuation |-> cont,
                 timestamp |-> ts, crc |-> 0, stop_header |-> eh]
    IN  [body EXCEPT !.crc = (calculate_crc(body) + crcdev) % 65536]

\* headers within MaxHeaderDev of a signature, bytes kept in 0..255
HeadersNear(sig) ==
    { h \in { <<sig[1] + a, sig[2] + b, sig[3] + c>> :
                  a \in -MaxHeaderDev..MaxHeaderDev,
                  b \in -MaxHeaderDev..MaxHeaderDev,
                  c \in -MaxHeaderDev..MaxHeaderDev } :
        \A i \in 1..3 : h[i] \in 0..255 }

\* no packet in the buffer
NoPacket == [start_header |-> <<>>, cmd |-> 0, sub_cmd |-> 0, payload |-> <<>>,
             continuation |-> 0, timestamp |-> 0, crc |-> 0, stop_header |-> <<>>]

\* the packets verify_message is applied to
VerifyInputs ==
    { MakePacket(sh, cmd, 0, ValuePayload(12, 35, PIN_ANALOG_INPUT), 0, ts, d, eh) :
        sh \in HeadersNear(START_SIGNATURE), eh \in HeadersNear(STOP_SIGNATURE),
        cmd \in {SENSEI_CMD_GET_VALUE, SENSEI_CMD_ACK},
        ts \in {0, 1234}, d \in 0..MaxCrcDev }

(***************************************************************************)
(* verify_message applied to an input packet                               *)
(***************************************************************************)
notVerifyVars == <<mapVars, serialVars, raspaVars, dispatchVars, encodeVars, configVars, reloadVars, gpioVars, crcVars, concatVars, uuidVars, processVars, lifeVars, raceVars>>

VerifyIdle == packet = NoPacket /\ verify_result = "none"

VerifyInit == packet \in VerifyInputs /\ verify_result = "none"

VerifyMessage ==
    /\ verify_result = "none"
    /\ verify_result' = IF verify_message(packet) THEN "accept" ELSE "reject"
    /\ UNCHANGED packet
    /\ UNCHANGED notVerifyVars

(***************************************************************************)
(* Mapping processor                                                       *)
(***************************************************************************)
notMapVars == <<verifyVars, serialVars, raspaVars, dispatchVars, encodeVars, configVars, reloadVars, gpioVars, crcVars, concatVars, uuidVars, processVars, lifeVars, raceVars>>

Pins == 0..(max_n_pins - 1)

\* PinType values a SET_PIN_TYPE command may carry; UNDEFINED stands for any
\* value outside the enumeration's input types and DISABLED
PinTypes == {"DIGITAL_INPUT", "ANALOG_INPUT", "IMU_INPUT", "DISABLED", "UNDEFINED"}

MapCommandTypes == {"SET_PIN_TYPE", "SET_SENDING_MODE", "SEND_DIGITAL_PIN_VALUE"}

\* the commands handed to apply_command: in-range pins and -1, max_n_pins,
\* max_n_pins + 1
MapCommands ==
    [type : {"SET_PIN_TYPE"}, index : -1..(max_n_pins + 1), data : PinTypes]
    \cup [type : MapCommandTypes \ {"SET_PIN_TYPE"},
          index : -1..(max_n_pins + 1), data : 0..MaxData]

NoCommand == [type |-> "none", index |-> -1, data |-> 0]

\* a null entry of _mappers
NullMapper == [kind |-> "NULL", sending_mode |-> 0]

\* new DigitalSensorMapper(i) / AnalogSensorMapper(i) / ImuMapper(i): a mapper
\* in its default configuration
DigitalSensorMapper == [kind |-> "Digital", sending_mode |-> 0]
AnalogSensorMapper == [kind |-> "Analog", sending_mode |-> 0]
ImuMapper == [kind |-> "Imu", sending_mode |-> 0]

\* apply_command of the mapper classes: the digital and the analog mapper take
\* a sending mode, the IMU mapper (a direct-valued axis) has none, and no
\* input mapper takes a digital output value
mapper_apply_command(m, cmd) ==
    CASE cmd.type = "SET_SENDING_MODE" /\ m.kind \in {"Digital", "Analog"} ->
            [status |-> "OK", mapper |-> [m EXCEPT !.sending_mode = cmd.data]]
      [] OTHER ->
            [status |-> "INVALID_COMMAND_FOR_PIN_TYPE", mapper |-> m]

ApplyResult(status, ms, delegated) ==
    [status |-> status, mappers |-> ms, delegated |-> delegated]

\* mutant: the IMU case constructs an analog mapper
SetPinTypeImuAsAnalog(ms, sensor_index, pin_type) ==
    CASE pin_type = "DIGITAL_INPUT" ->
            ApplyResult("OK", [ms EXCEPT ![sensor_index] = DigitalSensorMapper], FALSE)
      [] pin_type \in {"ANALOG_INPUT", "IMU_INPUT"} ->
            ApplyResult("OK", [ms EXCEPT ![sensor_index] = AnalogSensorMapper], FALSE)
      [] OTHER ->
            ApplyResult("INVALID_VALUE", ms, FALSE)

\* mutant: the default case releases the mapper of the pin
SetPinTypeDefaultResets(ms, sensor_index, pin_type) ==
    CASE pin_type = "DIGITAL_INPUT" ->
            ApplyResult("OK", [ms EXCEPT ![sensor_index] = DigitalSensorMapper], FALSE)
      [] pin_type = "ANALOG_INPUT" ->
            ApplyResult("OK", [ms EXCEPT ![sensor_index] = AnalogSensorMapper], FALSE)
      [] pin_type = "IMU_INPUT" ->
            ApplyResult("OK", [ms EXCEPT ![sensor_index] = ImuMapper], FALSE)
      [] OTHER ->
            ApplyResult("INVALID_VALUE", [ms EXCEPT ![sensor_index] = NullMapper], FALSE)

\* mutant: a pin that already has a mapper of the requested kind keeps it
SetPinTypeKeepsSameKind(ms, sensor_index, pin_type) ==
    CASE pin_type = "DIGITAL_INPUT" ->
            ApplyResult("OK", IF ms[sensor_index].kind = "Digital" THEN ms
                              ELSE [ms EXCEPT ![sensor_index] = DigitalSensorMapper],
                        FALSE)
      [] pin_type = "ANALOG_INPUT" ->
            ApplyResult("OK", IF ms[sensor_index].kind = "Analog" THEN ms
                              ELSE [ms EXCEPT ![sensor_index] = AnalogSensorMapper],
                        FALSE)
      [] pin_type = "IMU_INPUT" ->
            ApplyResult("OK", IF ms[sensor_index].kind = "Imu" THEN ms
                              ELSE [ms EXCEPT ![sensor_index] = ImuMapper],
                        FALSE)
      [] OTHER ->
            ApplyResult("INVALID_VALUE", ms, FALSE)

\* apply_command, the SET_PIN_TYPE branch: switch (pin_type)
SetPinTypeBranch(ms, sensor_index, pin_type) ==
    CASE pin_type = "DIGITAL_INPUT" ->
            ApplyResult("OK", [ms EXCEPT ![sensor_index] = DigitalSensorMapper], FALSE)
      [] pin_type = "ANALOG_INPUT" ->
            ApplyResult("OK", [ms EXCEPT ![sensor_index] = AnalogSensorMapper], FALSE)
      [] pin_type = "IMU_INPUT" ->
            ApplyResult("OK", [ms EXCEPT ![sensor_index] = ImuMapper], FALSE)
      [] OTHER ->
            ApplyResult("INVALID_VALUE", ms, FALSE)

\* mutant: the command is handed to the slot's mapper without the null test
MapperBranchNoNullTest(ms, sensor_index, cmd) ==
    LET r == mapper_apply_command(ms[sensor_index], cmd)
    IN  ApplyResult(r.status, [ms EXCEPT ![sensor_index] = r.mapper], TRUE)

\* apply_command, the else branch: only initialised pins take the command
MapperBranch(ms, sensor_index, cmd) ==
    IF ms[sensor_index] = NullMapper
    THEN ApplyResult("UNINITIALIZED_PIN", ms, FALSE)
    ELSE LET r == mapper_apply_command(ms[sensor_index], cmd)
         IN  ApplyResult(r.status, [ms EXCEPT ![sensor_index] = r.mapper], TRUE)

\* mutant: the upper limit of the index test is off by one for SET_PIN_TYPE,
\* whose store then falls outside the array
apply_command_index_off_by_one(ms, cmd) ==
    LET sensor_index == cmd.index IN
    IF (sensor_index < 0) \/ (sensor_index > max_n_pins)
          \/ (sensor_index = max_n_pins /\ cmd.type # "SET_PIN_TYPE")
    THEN ApplyResult("INVALID_PIN_INDEX", ms, FALSE)
    ELSE IF cmd.type = "SET_PIN_TYPE"
    THEN SetPinTypeBranch(ms, sensor_index, cmd.data)
    ELSE MapperBranch(ms, sensor_index, cmd)

\* MappingProcessor::apply_command(cmd) on the mapper array ms
apply_command(ms, cmd) ==
    LET sensor_index == cmd.index IN
    IF (sensor_index < 0) \/ (sensor_index > (max_n_pins - 1))
    THEN ApplyResult("INVALID_PIN_INDEX", ms, FALSE)
    ELSE IF cmd.type = "SET_PIN_TYPE"
    THEN SetPinTypeBranch(ms, sensor_index, cmd.data)
    ELSE MapperBranch(ms, sensor_index, cmd)

MapIdle ==
    /\ mappers = [p \in Pins |-> NullMapper]
    /\ map_cmd = NoCommand
    /\ map_status = "none"
    /\ map_delegated = FALSE
    /\ map_prev = [p \in Pins |-> NullMapper]
    /\ pin_type_applied = [p \in Pins |-> FALSE]
    /\ last_ok_type = [p \in Pins |-> "none"]

\* MappingProcessor(max_n_input_pins): every slot null
MapInit == MapIdle

\* one call of apply_command
ApplyCommand(cmd) ==
    LET r == apply_command(mappers, cmd) IN
    /\ mappers' = r.mappers
    /\ map_cmd' = cmd
    /\ map_status' = r.status
    /\ map_delegated' = r.delegated
    /\ map_prev' = mappers
    /\ pin_type_applied' =
         IF cmd.type = "SET_PIN_TYPE" /\ cmd.index \in Pins
         THEN [pin_type_applied EXCEPT ![cmd.index] = TRUE]
         ELSE pin_type_applied
    /\ last_ok_type' =
         IF cmd.type = "SET_PIN_TYPE" /\ cmd.index \in Pins /\ r.status = "OK"
         THEN [last_ok_type EXCEPT ![cmd.index] = cmd.data]
         ELSE last_ok_type
    /\ UNCHANGED notMapVars

(***************************************************************************)
(* Serial frontend                                                         *)
(***************************************************************************)
notSerialVars == <<verifyVars, mapVars, raspaVars, dispatchVars, encodeVars, configVars, reloadVars, gpioVars, crcVars, concatVars, uuidVars, processVars, lifeVars, raceVars>>

\* MessageFactory::make_digital_value / make_analog_value
make_digital_value(pin_id, value, timestamp) ==
    [type |-> "DIGITAL_VALUE", index |-> pin_id, value |-> value,
     timestamp |-> timestamp]
make_analog_value(pin_id, value, timestamp) ==
    [type |-> "ANALOG_VALUE", index |-> pin_id, value |-> value,
     timestamp |-> timestamp]

\* std::unique_ptr<BaseMessage>(nullptr)
NullMessage == [type |-> "NULL", index |-> 0, value |-> 0, timestamp |-> 0]

\* the fields of the teensy_value_msg at packet->payload
PayloadPinId(p) == p.payload[1] + 256 * p.payload[2]
PayloadValue(p) == p.payload[3] + 256 * p.payload[4]
PayloadPinType(p) == p.payload[5]

\* SerialFrontend::create_internal_message(packet)
create_internal_message(p) ==
    IF p.cmd \in {SENSEI_CMD_GET_VALUE, SENSEI_CMD_GET_ALL_VALUES}
    THEN CASE PayloadPinType(p) = PIN_DIGITAL_INPUT ->
                make_digital_value(PayloadPinId(p), PayloadValue(p), p.timestamp)
           [] PayloadPinType(p) = PIN_ANALOG_INPUT ->
                make_analog_value(PayloadPinId(p), PayloadValue(p), p.timestamp)
           [] OTHER -> NullMessage
    ELSE NullMessage

\* Command tags (message/base_command.h)
HandledTags == {"SET_SAMPLING_RATE", "SET_PIN_TYPE", "SET_SENDING_MODE",
                "SET_SENDING_DELTA_TICKS", "SET_ADC_BIT_RESOLUTION",
                "SET_LOWPASS_FILTER_ORDER", "SET_LOWPASS_CUTOFF",
                "SET_SLIDER_THRESHOLD", "SEND_DIGITAL_PIN_VALUE"}
CommandTags == HandledTags \cup
               {"SET_INVERT_ENABLED", "SET_INPUT_SCALE_RANGE", "SET_OUTPUT_RANGE",
                "ENABLE_SENDING", "SET_MUTE_STATUS", "VERIFY_ACKS", "RELOAD_CONFIG"}

\* const sSenseiDataPacket* nullptr
NullPacket == [cmd |-> "NULL", sub_cmd |-> "NULL", pin |-> 0, timestamp |-> 0,
               value |-> 0]

\* the packets of the packet factory (_packet_factory.make_*_cmd): the command
\* and sub command of the protocol, the pin, the timestamp and the value set
FactoryPacket(cmd, sub_cmd, pin, timestamp, value) ==
    [cmd |-> cmd, sub_cmd |-> sub_cmd, pin |-> pin, timestamp |-> timestamp,
     value |-> value]

\* mutant: the delta ticks and the lowpass cutoff cases call each other's
\* factory function
create_send_command_swapped(m) ==
    CASE m.tag = "SET_SENDING_DELTA_TICKS" ->
            FactoryPacket("CONFIGURE_PIN", "LOWPASS_CUTOFF", m.index, m.timestamp, m.data)
      [] m.tag = "SET_LOWPASS_CUTOFF" ->
            FactoryPacket("CONFIGURE_PIN", "DELTA_TICKS", m.index, m.timestamp, m.data)
      [] OTHER -> NullPacket

\* SerialFrontend::create_send_command(message)
create_send_command(m) ==
    CASE m.tag = "SET_SAMPLING_RATE" ->
            FactoryPacket("SET_SAMPLING_RATE", "NONE", 0, m.timestamp, m.data)
      [] m.tag = "SET_PIN_TYPE" ->
            FactoryPacket("CONFIGURE_PIN", "PIN_TYPE", m.index, m.timestamp, m.data)
      [] m.tag = "SET_SENDING_MODE" ->
            FactoryPacket("CONFIGURE_PIN", "SENDING_MODE", m.index, m.timestamp, m.data)
      [] m.tag = "SET_SENDING_DELTA_TICKS" ->
            FactoryPacket("CONFIGURE_PIN", "DELTA_TICKS", m.index, m.timestamp, m.data)
      [] m.tag = "SET_ADC_BIT_RESOLUTION" ->
            FactoryPacket("CONFIGURE_PIN", "ADC_BIT_RESOLUTION", m.index, m.timestamp, m.data)
      [] m.tag = "SET_LOWPASS_FILTER_ORDER" ->
            FactoryPacket("CONFIGURE_PIN", "FILTER_ORDER", m.index, m.timestamp, m.data)
      [] m.tag = "SET_LOWPASS_CUTOFF" ->
            FactoryPacket("CONFIGURE_PIN", "LOWPASS_CUTOFF", m.index, m.timestamp, m.data)
      [] m.tag = "SET_SLIDER_THRESHOLD" ->
            FactoryPacket("CONFIGURE_PIN", "SLIDER_THRESHOLD", m.index, m.timestamp, m.data)
      [] m.tag = "SEND_DIGITAL_PIN_VALUE" ->
            FactoryPacket("SET_DIGITAL_PINS", "SET_PIN", m.index, m.timestamp, m.data)
      [] OTHER -> NullPacket

\* sp_nonblocking_write(_port, packet, sizeof(sSenseiDataPacket)): a null
\* buffer is refused by the port library and nothing is written
sp_nonblocking_write(port, pkt) ==
    IF pkt = NullPacket THEN port ELSE Append(port, pkt)

\* the commands producers push onto the to-frontend queue
TxCommands ==
    { [tag |-> t, index |-> 3, data |-> 5, timestamp |-> 100] :
        t \in {"SET_PIN_TYPE", "SET_SENDING_DELTA_TICKS", "SET_INVERT_ENABLED"} }

\* the unit test's tables: _pin_to_id_table[12] = 10 and _imu_sensor_index
\* with YAW, PITCH and ROLL at 0, 1 and 2
pin_to_id_table == (12 :> 10)
imu_sensor_index == [YAW |-> 0, PITCH |-> 1, ROLL |-> 2]

\* the unit test's IMU packet: all quaternion bytes zero, checksum valid
ImuPacket ==
    MakePacket(START_SIGNATURE, SENSEI_CMD_IMU, IMU_SUB_CMD,
               ZeroBytes(SENSEI_PAYLOAD_LENGTH), 0, 1234, 0, STOP_SIGNATURE)

\* what a read of the serial port that returns a full packet leaves in the
\* buffer: value packets (digital, analog, unknown pin type), an ack, a
\* value packet with a wrong checksum, and an IMU packet
\* a value packet whose first two start header bytes arrived swapped, its
\* crc field right
SwappedHeaderPacket ==
    MakePacket(<<START_SIGNATURE[2], START_SIGNATURE[1], START_SIGNATURE[3]>>,
               SENSEI_CMD_GET_VALUE, 0, ValuePayload(12, 35, PIN_DIGITAL_INPUT),
               0, 1234, 0, STOP_SIGNATURE)

RxPackets ==
    { MakePacket(START_SIGNATURE, SENSEI_CMD_GET_VALUE, 0,
                 ValuePayload(12, 35, pt), 0, 1234, 0, STOP_SIGNATURE) :
        pt \in {PIN_DIGITAL_INPUT, PIN_ANALOG_INPUT, PIN_OTHER} }
    \cup { MakePacket(START_SIGNATURE, SENSEI_CMD_ACK, 0,
                      ZeroBytes(SENSEI_PAYLOAD_LENGTH), 0, 1234, 0, STOP_SIGNATURE),
           MakePacket(START_SIGNATURE, SENSEI_CMD_GET_VALUE, 0,
                      ValuePayload(12, 35, PIN_DIGITAL_INPUT), 0, 1234, 1,
                      STOP_SIGNATURE),
           ImuPacket, SwappedHeaderPacket }

\* SerialFrontend::SerialFrontend: both thread states STOPPED, not muted
SerialIdle ==
    /\ read_thread_state = "STOPPED"
    /\ write_thread_state = "STOPPED"
    /\ muted = FALSE
    /\ in_queue = <<>>
    /\ out_queue = <<>>
    /\ buffer = NoPacket
    /\ wire = <<>>
    /\ rpc = "none"
    /\ wpc = "none"
    /\ cpc = "idle"
    /\ pushed = <<>>
    /\ n_reads = 0

SerialInit == SerialIdle

notSerialLifeVars == <<verifyVars, mapVars, raspaVars, dispatchVars, encodeVars, configVars, reloadVars, gpioVars, crcVars, concatVars, uuidVars, processVars, raceVars>>

LifeIdle == cpc2 = "idle" /\ overlap = "none" /\ calls = <<>> /\ started = <<>>

\* the last two calls, the one just made last
RecordCall(what) ==
    IF Len(calls) < 2 THEN Append(calls, what) ELSE <<calls[2], what>>

\* the positions of a thread that was started and has not left its loop
\* function
LivePositions == {"loop", "read", "wait", "exit"}

\* _thread = std::thread(loop, this) on the thread object whose thread is at
\* tpc: the new thread is constructed and started, then move-assigned; if
\* the object still holds a thread (not joined) the assignment calls
\* std::terminate, which ends every thread of the process
StartThread(tpc, role, next_pc) ==
    IF tpc = "none"
    THEN [terminate |-> FALSE, tpc |-> "loop", pc |-> next_pc, overlap |-> overlap]
    ELSE [terminate |-> TRUE, tpc |-> "terminated", pc |-> "terminated",
          overlap |-> IF tpc \in LivePositions THEN role ELSE overlap]

\* ---- the thread that owns the frontend: run(), stop(), mute()

\* mutant: run() starts the threads whatever the thread states
RunCheckNoTest ==
    /\ cpc = "idle"
    /\ cpc' = "run_change_state"
    /\ calls' = RecordCall("run")
    /\ started' = <<>>
    /\ UNCHANGED <<cpc2, overlap>>
    /\ UNCHANGED <<read_thread_state, write_thread_state, muted, in_queue,
                   out_queue, buffer, wire, rpc, wpc, pushed, n_reads>>
    /\ UNCHANGED notSerialLifeVars

\* run(), line 72: the test of the two thread states
RunCheck ==
    LET start == read_thread_state # "RUNNING" /\ write_thread_state # "RUNNING" IN
    /\ cpc = "idle"
    /\ cpc' = IF start THEN "run_change_state" ELSE "idle"
    /\ calls' = RecordCall(IF start THEN "run" ELSE "run_noop")
    /\ started' = IF start THEN <<>> ELSE started
    /\ UNCHANGED <<cpc2, overlap>>
    /\ UNCHANGED <<read_thread_state, write_thread_state, muted, in_queue,
                   out_queue, buffer, wire, rpc, wpc, pushed, n_reads>>
    /\ UNCHANGED notSerialLifeVars

\* change_state(state), under _state_mutex
change_state(state) ==
    /\ read_thread_state' = state
    /\ write_thread_state' = state

\* run(), line 74
RunChangeState ==
    /\ cpc = "run_change_state"
    /\ change_state("RUNNING")
    /\ cpc' = "run_start_read"
    /\ UNCHANGED <<muted, in_queue, out_queue, buffer, wire, rpc, wpc, pushed,
                   n_reads>>
    /\ UNCHANGED notSerialVars

\* run(), line 75: _read_thread = std::thread(read_loop)
RunStartRead ==
    LET t == StartThread(rpc, "reader", "run_start_write") IN
    /\ cpc = "run_start_read"
    /\ rpc' = t.tpc
    /\ cpc' = t.pc
    /\ wpc' = IF t.terminate THEN "terminated" ELSE wpc
    /\ cpc2' = IF t.terminate THEN "terminated" ELSE cpc2
    /\ overlap' = t.overlap
    /\ started' = Append(started, "reader")
    /\ UNCHANGED calls
    /\ UNCHANGED <<read_thread_state, write_thread_state, muted, in_queue,
                   out_queue, buffer, wire, pushed, n_reads>>
    /\ UNCHANGED notSerialLifeVars

\* run(), line 76: _write_thread = std::thread(write_loop)
RunStartWrite ==
    LET t == StartThread(wpc, "writer", "idle") IN
    /\ cpc = "run_start_write"
    /\ wpc' = t.tpc
    /\ cpc' = t.pc
    /\ rpc' = IF t.terminate THEN "terminated" ELSE rpc
    /\ cpc2' = IF t.terminate THEN "terminated" ELSE cpc2
    /\ overlap' = t.overlap
    /\ started' = Append(started, "writer")
    /\ UNCHANGED calls
    /\ UNCHANGED <<read_thread_state, write_thread_state, muted, in_queue,
                   out_queue, buffer, wire, pushed, n_reads>>
    /\ UNCHANGED notSerialLifeVars

\* stop(), lines 83-86: the early return when a thread is not RUNNING
StopReturn ==
    /\ cpc = "idle"
    /\ read_thread_state # "RUNNING" \/ write_thread_state # "RUNNING"
    /\ calls' = RecordCall("stop_noop")
    /\ UNCHANGED <<cpc2, overlap, started>>
    /\ UNCHANGED serialVars
    /\ UNCHANGED notSerialLifeVars

\* stop(), lines 83-87: both threads are RUNNING, change_state(STOPPING)
StopChangeState ==
    /\ cpc = "idle"
    /\ read_thread_state = "RUNNING" /\ write_thread_state = "RUNNING"
    /\ change_state("STOPPING")
    /\ cpc' = "stop_join_read"
    /\ calls' = RecordCall("stop")
    /\ UNCHANGED <<cpc2, overlap, started>>
    /\ UNCHANGED <<muted, in_queue, out_queue, buffer, wire, rpc, wpc, pushed,
                   n_reads>>
    /\ UNCHANGED notSerialLifeVars

\* mutant: stop() does not join the reader
StopJoinReadNoWait ==
    /\ cpc = "stop_join_read"
    /\ cpc' = "stop_join_write"
    /\ UNCHANGED <<read_thread_state, write_thread_state, muted, in_queue,
                   out_queue, buffer, wire, rpc, wpc, pushed, n_reads>>
    /\ UNCHANGED notSerialVars

\* stop(), lines 88-91: join the reader if joinable
StopJoinRead ==
    /\ cpc = "stop_join_read"
    /\ rpc \in {"none", "done"}
    /\ rpc' = "none"
    /\ cpc' = "stop_join_write"
    /\ UNCHANGED <<read_thread_state, write_thread_state, muted, in_queue,
                   out_queue, buffer, wire, wpc, pushed, n_reads>>
    /\ UNCHANGED notSerialVars

\* stop(), lines 92-95: join the writer if joinable
StopJoinWrite ==
    /\ cpc = "stop_join_write"
    /\ wpc \in {"none", "done"}
    /\ wpc' = "none"
    /\ cpc' = "idle"
    /\ UNCHANGED <<read_thread_state, write_thread_state, muted, in_queue,
                   out_queue, buffer, wire, rpc, pushed, n_reads>>
    /\ UNCHANGED notSerialVars

\* mute(state)
Mute(state) ==
    /\ cpc = "idle"
    /\ muted # state
    /\ muted' = state
    /\ UNCHANGED <<read_thread_state, write_thread_state, in_queue, out_queue,
                   buffer, wire, rpc, wpc, cpc, pushed, n_reads>>
    /\ UNCHANGED notSerialVars

\* a producer pushes a command onto the to-frontend queue
PushCommand(c) ==
    /\ Len(pushed) < MaxCommands
    /\ in_queue' = Append(in_queue, c)
    /\ pushed' = Append(pushed, c)
    /\ UNCHANGED <<read_thread_state, write_thread_state, muted, out_queue,
                   buffer, wire, rpc, wpc, cpc, n_reads>>
    /\ UNCHANGED notSerialVars

\* ---- read_loop

\* line 132: the loop test
ReaderTest ==
    /\ rpc = "loop"
    /\ rpc' = IF read_thread_state = "RUNNING" THEN "read" ELSE "exit"
    /\ UNCHANGED <<read_thread_state, write_thread_state, muted, in_queue,
                   out_queue, buffer, wire, wpc, cpc, pushed, n_reads>>
    /\ UNCHANGED notSerialVars

\* lines 134-136: the read timed out or returned less than a packet
ReaderShortRead ==
    /\ rpc = "read"
    /\ buffer' = NoPacket
    /\ rpc' = "loop"
    /\ UNCHANGED <<read_thread_state, write_thread_state, muted, in_queue,
                   out_queue, wire, wpc, cpc, pushed, n_reads>>
    /\ UNCHANGED notSerialVars

\* lines 134-151: the read returned the packet p
ReaderPacket(p) ==
    /\ rpc = "read"
    /\ n_reads < MaxReads
    /\ n_reads' = n_reads + 1
    /\ buffer' = p
    /\ rpc' = "loop"
    /\ IF muted = FALSE /\ verify_message(p) = FALSE
       THEN out_queue' = out_queue
       ELSE LET m == create_internal_message(p) IN
            IF m # NullMessage
            THEN out_queue' = Append(out_queue, m)
            ELSE out_queue' = out_queue
    /\ UNCHANGED <<read_thread_state, write_thread_state, muted, in_queue, wire,
                   wpc, cpc, pushed>>
    /\ UNCHANGED notSerialVars

\* lines 154-155: the reader leaves the loop
ReaderExit ==
    /\ rpc = "exit"
    /\ read_thread_state' = "STOPPED"
    /\ rpc' = "done"
    /\ UNCHANGED <<write_thread_state, muted, in_queue, out_queue, buffer, wire,
                   wpc, cpc, pushed, n_reads>>
    /\ UNCHANGED notSerialVars

\* ---- write_loop

\* line 164: the loop test
WriterTest ==
    /\ wpc = "loop"
    /\ wpc' = IF write_thread_state = "RUNNING" THEN "wait" ELSE "exit"
    /\ UNCHANGED <<read_thread_state, write_thread_state, muted, in_queue,
                   out_queue, buffer, wire, rpc, cpc, pushed, n_reads>>
    /\ UNCHANGED notSerialVars

\* lines 166-170: wait_for_data returned and the queue is empty
WriterTimeout ==
    /\ wpc = "wait"
    /\ in_queue = <<>>
    /\ wpc' = "loop"
    /\ UNCHANGED <<read_thread_state, write_thread_state, muted, in_queue,
                   out_queue, buffer, wire, rpc, cpc, pushed, n_reads>>
    /\ UNCHANGED notSerialVars

\* lines 171-173: pop a command, encode it, write the packet
WriterSend ==
    /\ wpc = "wait"
    /\ in_queue # <<>>
    /\ in_queue' = Tail(in_queue)
    /\ wire' = sp_nonblocking_write(wire, create_send_command(Head(in_queue)))
    /\ wpc' = "loop"
    /\ UNCHANGED <<read_thread_state, write_thread_state, muted, out_queue,
                   buffer, rpc, cpc, pushed, n_reads>>
    /\ UNCHANGED notSerialVars

\* lines 175-176: the writer leaves the loop
WriterExit ==
    /\ wpc = "exit"
    /\ write_thread_state' = "STOPPED"
    /\ wpc' = "done"
    /\ UNCHANGED <<read_thread_state, muted, in_queue, out_queue, buffer, wire,
                   rpc, cpc, pushed, n_reads>>
    /\ UNCHANGED notSerialVars

\* ---- a second thread calling run() and stop()

\* run(), line 72, on the second thread
Run2Check ==
    /\ cpc2 = "idle"
    /\ read_thread_state # "RUNNING" /\ write_thread_state # "RUNNING"
    /\ cpc2' = "run_change_state"
    /\ UNCHANGED <<serialVars, overlap>>
    /\ UNCHANGED <<calls, started>>
    /\ UNCHANGED notSerialLifeVars

\* run(), line 74, on the second thread
Run2ChangeState ==
    /\ cpc2 = "run_change_state"
    /\ change_state("RUNNING")
    /\ cpc2' = "run_start_read"
    /\ UNCHANGED <<muted, in_queue, out_queue, buffer, wire, rpc, wpc, cpc, pushed,
                   n_reads, overlap>>
    /\ UNCHANGED <<calls, started>>
    /\ UNCHANGED notSerialLifeVars

\* run(), line 75, on the second thread
Run2StartRead ==
    LET t == StartThread(rpc, "reader", "run_start_write") IN
    /\ cpc2 = "run_start_read"
    /\ rpc' = t.tpc
    /\ cpc2' = t.pc
    /\ wpc' = IF t.terminate THEN "terminated" ELSE wpc
    /\ cpc' = IF t.terminate THEN "terminated" ELSE cpc
    /\ overlap' = t.overlap
    /\ UNCHANGED <<read_thread_state, write_thread_state, muted, in_queue,
                   out_queue, buffer, wire, pushed, n_reads>>
    /\ UNCHANGED <<calls, started>>
    /\ UNCHANGED notSerialLifeVars

\* run(), line 76, on the second thread
Run2StartWrite ==
    LET t == StartThread(wpc, "writer", "idle") IN
    /\ cpc2 = "run_start_write"
    /\ wpc' = t.tpc
    /\ cpc2' = t.pc
    /\ rpc' = IF t.terminate THEN "terminated" ELSE rpc
    /\ cpc' = IF t.terminate THEN "terminated" ELSE cpc
    /\ overlap' = t.overlap
    /\ UNCHANGED <<read_thread_state, write_thread_state, muted, in_queue,
                   out_queue, buffer, wire, pushed, n_reads>>
    /\ UNCHANGED <<calls, started>>
    /\ UNCHANGED notSerialLifeVars

\* stop(), lines 83-87, on the second thread
Stop2ChangeState ==
    /\ cpc2 = "idle"
    /\ read_thread_state = "RUNNING" /\ write_thread_state = "RUNNING"
    /\ change_state("STOPPING")
    /\ cpc2' = "stop_join_read"
    /\ UNCHANGED <<muted, in_queue, out_queue, buffer, wire, rpc, wpc, cpc, pushed,
                   n_reads, overlap>>
    /\ UNCHANGED <<calls, started>>
    /\ UNCHANGED notSerialLifeVars

\* stop(), lines 88-91, on the second thread
Stop2JoinRead ==
    /\ cpc2 = "stop_join_read"
    /\ rpc \in {"none", "done"}
    /\ rpc' = "none"
    /\ cpc2' = "stop_join_write"
    /\ UNCHANGED <<read_thread_state, write_thread_state, muted, in_queue,
                   out_queue, buffer, wire, wpc, cpc, pushed, n_reads, overlap>>
    /\ UNCHANGED <<calls, started>>
    /\ UNCHANGED notSerialLifeVars

\* stop(), lines 92-95, on the second thread
Stop2JoinWrite ==
    /\ cpc2 = "stop_join_write"
    /\ wpc \in {"none", "done"}
    /\ wpc' = "none"
    /\ cpc2' = "idle"
    /\ UNCHANGED <<read_thread_state, write_thread_state, muted, in_queue,
                   out_queue, buffer, wire, rpc, cpc, pushed, n_reads, overlap>>
    /\ UNCHANGED <<calls, started>>
    /\ UNCHANGED notSerialLifeVars

(***************************************************************************)
(* Raspa frontend: the writer and the acknowledgements.  Only the class    *)
(* declaration is among the sources; the loops follow the design document. *)
(***************************************************************************)
notRaspaVars == <<verifyVars, mapVars, serialVars, dispatchVars, encodeVars, configVars, reloadVars, gpioVars, crcVars, concatVars, uuidVars, processVars, lifeVars, raceVars>>

SequenceNumbers == 1..MaxRaspaCommands

\* the packet the command creator makes of a command: XmosControlPacket
XmosControlPacket(cmd, sequence_no) == [cmd |-> cmd, sequence_no |-> sequence_no]

\* no packet is tracked
NoXmosPacket == [cmd |-> "none", sequence_no |-> 0]

\* the Error message of a command that was never acknowledged
TimeoutError(sequence_no) ==
    [type |-> "ERROR", code |-> "TIMEOUT_ON_RESPONSE", sequence_no |-> sequence_no]

RaspaIdle ==
    /\ raspa_in_queue = <<>>
    /\ send_list = <<>>
    /\ tracked = NoXmosPacket
    /\ ready_to_send = TRUE
    /\ pending_sequence_number = 0
    /\ verify_acks = FALSE
    /\ retries = 0
    /\ next_sequence_number = 1
    /\ raspa_wire = <<>>
    /\ acks = {}
    /\ raspa_out_queue = <<>>
    /\ outcome = [n \in SequenceNumbers |-> "unsent"]

\* a constructed frontend; verify_acks(enabled) is called before run()
RaspaInit ==
    /\ raspa_in_queue = <<>>
    /\ send_list = <<>>
    /\ tracked = NoXmosPacket
    /\ ready_to_send = TRUE
    /\ pending_sequence_number = 0
    /\ verify_acks \in BOOLEAN
    /\ retries = 0
    /\ next_sequence_number = 1
    /\ raspa_wire = <<>>
    /\ acks = {}
    /\ raspa_out_queue = <<>>
    /\ outcome = [n \in SequenceNumbers |-> "unsent"]

\* the event handler pushes a command onto the to-frontend queue
RaspaPushCommand(tag) ==
    /\ next_sequence_number + Len(raspa_in_queue) <= MaxRaspaCommands
    /\ raspa_in_queue' = Append(raspa_in_queue, tag)
    /\ UNCHANGED <<send_list, tracked, ready_to_send, pending_sequence_number,
                   verify_acks, retries, next_sequence_number, raspa_wire, acks,
                   raspa_out_queue, outcome>>
    /\ UNCHANGED notRaspaVars

\* write_loop: pop a command, _process_sensei_command puts its packet on the
\* send list
ProcessSenseiCommand ==
    /\ raspa_in_queue # <<>>
    /\ raspa_in_queue' = Tail(raspa_in_queue)
    /\ send_list' = Append(send_list,
                           XmosControlPacket(Head(raspa_in_queue), next_sequence_number))
    /\ next_sequence_number' = next_sequence_number + 1
    /\ UNCHANGED <<tracked, ready_to_send, pending_sequence_number, verify_acks,
                   retries, raspa_wire, acks, raspa_out_queue, outcome>>
    /\ UNCHANGED notRaspaVars

\* mutant: the writer sends the next packet without waiting for the ack
CanSendIgnoringPending == send_list # <<>>

\* the writer may send the front of the send list: nothing is in flight
CanSend == send_list # <<>> /\ ready_to_send

\* write_loop: send the front of the send list; with ack verification the
\* packet is tracked until its ack or its last timeout
RaspaSend ==
    /\ CanSend
    /\ LET pkt == Head(send_list) IN
       /\ raspa_wire' = Append(raspa_wire, pkt)
       /\ send_list' = Tail(send_list)
       /\ IF verify_acks
          THEN /\ tracked' = pkt
               /\ pending_sequence_number' = pkt.sequence_no
               /\ ready_to_send' = FALSE
               /\ retries' = 1
               /\ outcome' = [outcome EXCEPT ![pkt.sequence_no] = "pending"]
          ELSE /\ outcome' = [outcome EXCEPT ![pkt.sequence_no] = "acked"]
               /\ UNCHANGED <<tracked, pending_sequence_number, ready_to_send,
                              retries>>
    /\ UNCHANGED <<raspa_in_queue, verify_acks, next_sequence_number, acks,
                   raspa_out_queue>>
    /\ UNCHANGED notRaspaVars

\* the board acknowledges a packet it received, at any later time
BoardAck(n) ==
    /\ verify_acks
    /\ \E i \in 1..Len(raspa_wire) : raspa_wire[i].sequence_no = n
    /\ n \notin acks
    /\ acks' = acks \cup {n}
    /\ UNCHANGED <<raspa_in_queue, send_list, tracked, ready_to_send,
                   pending_sequence_number, verify_acks, retries,
                   next_sequence_number, raspa_wire, raspa_out_queue, outcome>>
    /\ UNCHANGED notRaspaVars

\* read_loop, _handle_ack: the ack of the packet in flight releases the
\* writer, any other ack is dropped
HandleAck(n) ==
    /\ n \in acks
    /\ acks' = acks \ {n}
    /\ IF ~ready_to_send /\ n = pending_sequence_number
       THEN /\ tracked' = NoXmosPacket
            /\ ready_to_send' = TRUE
            /\ retries' = 0
            /\ outcome' = [outcome EXCEPT ![n] = "acked"]
       ELSE UNCHANGED <<tracked, ready_to_send, retries, outcome>>
    /\ UNCHANGED <<raspa_in_queue, send_list, pending_sequence_number,
                   verify_acks, next_sequence_number, raspa_wire,
                   raspa_out_queue>>
    /\ UNCHANGED notRaspaVars

\* mutant: the writer gives up at the first timeout and raises no error
TimeoutGiveUpSilently ==
    /\ ~ready_to_send
    /\ tracked' = NoXmosPacket
    /\ ready_to_send' = TRUE
    /\ retries' = 0
    /\ outcome' = [outcome EXCEPT ![pending_sequence_number] = "timeout"]
    /\ UNCHANGED <<raspa_wire, raspa_out_queue>>
    /\ UNCHANGED <<raspa_in_queue, send_list, pending_sequence_number,
                   verify_acks, next_sequence_number, acks>>
    /\ UNCHANGED notRaspaVars

\* write_loop: the wait on _ready_to_send_notifier timed out; the packet is
\* sent again, or after the last attempt given up with an error
RaspaTimeout ==
    /\ ~ready_to_send
    /\ IF retries < MaxAttempts
       THEN /\ raspa_wire' = Append(raspa_wire, tracked)
            /\ retries' = retries + 1
            /\ UNCHANGED <<tracked, ready_to_send, raspa_out_queue, outcome>>
       ELSE /\ raspa_out_queue' =
                  Append(raspa_out_queue, TimeoutError(pending_sequence_number))
            /\ tracked' = NoXmosPacket
            /\ ready_to_send' = TRUE
            /\ retries' = 0
            /\ outcome' = [outcome EXCEPT ![pending_sequence_number] = "timeout"]
            /\ UNCHANGED raspa_wire
    /\ UNCHANGED <<raspa_in_queue, send_list, pending_sequence_number,
                   verify_acks, next_sequence_number, acks>>
    /\ UNCHANGED notRaspaVars

(***************************************************************************)
(* Event handler: the dispatcher draining the event queue                  *)
(* (event_handler.h declares it; its routing is modelled from the          *)
(* specification's routing rules)                                          *)
(***************************************************************************)
notDispatchVars == <<verifyVars, mapVars, serialVars, raspaVars, encodeVars, configVars, reloadVars, gpioVars, crcVars, concatVars, uuidVars, processVars, lifeVars, raceVars>>

\* base type and target of the messages put on the event queue
EventKinds ==
    { <<"COMMAND", "MAPPING">>, <<"COMMAND", "HW_FRONTEND">>,
      <<"COMMAND", "INTERNAL">>, <<"VALUE", "NONE">>, <<"ERROR", "NONE">> }

Event(id, kind) == [id |-> id, base_type |-> kind[1], target |-> kind[2]]

NoEvent == [id |-> 0, base_type |-> "NONE", target |-> "NONE"]

\* mutant: push puts the item in front of the queue
push_front(q, v) == <<v>> \o q

\* SynchronizedQueue: push appends, pop removes the oldest item
push(q, v) == Append(q, v)

front(q) == Head(q)

pop(q) == Tail(q)

DispatchIdle ==
    /\ event_queue = <<>>
    /\ to_frontend_queue = <<>>
    /\ handling = NoEvent
    /\ routed = <<>>
    /\ forwarded = <<>>
    /\ n_events = 0

DispatchInit == DispatchIdle

\* a frontend or the user frontend pushes a message onto the event queue
PushEvent(kind) ==
    /\ n_events < MaxEvents
    /\ n_events' = n_events + 1
    /\ event_queue' = push(event_queue, Event(n_events + 1, kind))
    /\ UNCHANGED <<to_frontend_queue, handling, routed, forwarded>>
    /\ UNCHANGED notDispatchVars

\* handle_events: take the oldest message off the event queue
handle_events ==
    /\ handling = NoEvent
    /\ event_queue # <<>>
    /\ handling' = front(event_queue)
    /\ event_queue' = pop(event_queue)
    /\ UNCHANGED <<to_frontend_queue, routed, forwarded, n_events>>
    /\ UNCHANGED notDispatchVars

\* _handle_command: apply to the mapping processor, forward to the frontend
\* or handle internally, by target
handle_command ==
    /\ handling.base_type = "COMMAND"
    /\ IF handling.target = "HW_FRONTEND"
       THEN /\ to_frontend_queue' = push(to_frontend_queue, handling)
            /\ forwarded' = Append(forwarded, handling)
       ELSE UNCHANGED <<to_frontend_queue, forwarded>>
    /\ routed' = Append(routed, handling)
    /\ handling' = NoEvent
    /\ UNCHANGED <<event_queue, n_events>>
    /\ UNCHANGED notDispatchVars

\* _handle_value: hand the value to the mapping processor
handle_value ==
    /\ handling.base_type = "VALUE"
    /\ routed' = Append(routed, handling)
    /\ handling' = NoEvent
    /\ UNCHANGED <<event_queue, to_frontend_queue, forwarded, n_events>>
    /\ UNCHANGED notDispatchVars

\* _handle_error: log the error
handle_error ==
    /\ handling.base_type = "ERROR"
    /\ routed' = Append(routed, handling)
    /\ handling' = NoEvent
    /\ UNCHANGED <<event_queue, to_frontend_queue, forwarded, n_events>>
    /\ UNCHANGED notDispatchVars

\* the frontend's writer takes the oldest command off the to-frontend queue
FrontendTake ==
    /\ to_frontend_queue # <<>>
    /\ to_frontend_queue' = pop(to_frontend_queue)
    /\ UNCHANGED <<event_queue, handling, routed, forwarded, n_events>>
    /\ UNCHANGED notDispatchVars

(***************************************************************************)
(* create_send_command applied to one command, and the packet decoded      *)
(* again by create_internal_message                                        *)
(***************************************************************************)
notEncodeVars == <<verifyVars, mapVars, serialVars, raspaVars, dispatchVars, configVars, reloadVars, gpioVars, crcVars, concatVars, uuidVars, processVars, lifeVars, raceVars>>

\* command bytes of the packets the packet factory makes; the protocol
\* header is not among the sources, the codes are bytes distinct from those
\* of GET_VALUE, GET_ALL_VALUES and ACK
SENSEI_CMD_CONFIGURE_PIN == 100
SENSEI_CMD_SET_SAMPLING_RATE == 3
SENSEI_CMD_SET_DIGITAL_PINS == 104

CmdByte(cmd) ==
    CASE cmd = "CONFIGURE_PIN" -> SENSEI_CMD_CONFIGURE_PIN
      [] cmd = "SET_SAMPLING_RATE" -> SENSEI_CMD_SET_SAMPLING_RATE
      [] cmd = "SET_DIGITAL_PINS" -> SENSEI_CMD_SET_DIGITAL_PINS

\* the sPinConfiguration the factory puts in the payload of a CONFIGURE_PIN
\* packet: the field of the sub command carries the value
PinConfiguration(pkt) ==
    [idxPin |-> pkt.pin,
     deltaTicksContinuousMode |->
         IF pkt.sub_cmd = "DELTA_TICKS" THEN pkt.value ELSE 0,
     lowPassCutOffFilter |->
         IF pkt.sub_cmd = "LOWPASS_CUTOFF" THEN pkt.value ELSE 0]

\* the sSenseiDataPacket on the wire for a packet of the factory
WirePacket(pkt) ==
    MakePacket(START_SIGNATURE, CmdByte(pkt.cmd), 0,
               LEBytes(pkt.pin, 2) \o LEBytes(pkt.value, 2)
                   \o ZeroBytes(SENSEI_PAYLOAD_LENGTH - 4),
               0, pkt.timestamp, 0, STOP_SIGNATURE)

NoCommandMessage == [tag |-> "NONE", index |-> 0, data |-> 0, timestamp |-> 0]

\* the commands create_send_command is applied to: every tag, the pins,
\* values and timestamp of the unit test
EncodeCommands ==
    { [tag |-> t, index |-> i, data |-> d, timestamp |-> 100] :
        t \in CommandTags, i \in {3, 4}, d \in {5, 1234} }

EncodeIdle ==
    /\ enc_command = NoCommandMessage
    /\ enc_packet = NullPacket
    /\ enc_decoded = NullMessage
    /\ enc_pc = "none"

EncodeInit ==
    /\ enc_command \in EncodeCommands
    /\ enc_packet = NullPacket
    /\ enc_decoded = NullMessage
    /\ enc_pc = "command"

\* const sSenseiDataPacket* packet = create_send_command(message)
Encode ==
    /\ enc_pc = "command"
    /\ enc_packet' = create_send_command(enc_command)
    /\ enc_pc' = "encoded"
    /\ UNCHANGED <<enc_command, enc_decoded>>
    /\ UNCHANGED notEncodeVars

\* create_internal_message of the packet, when there is one
Decode ==
    /\ enc_pc = "encoded"
    /\ enc_packet # NullPacket
    /\ enc_decoded' = create_internal_message(WirePacket(enc_packet))
    /\ enc_pc' = "decoded"
    /\ UNCHANGED <<enc_command, enc_packet>>
    /\ UNCHANGED notEncodeVars

(***************************************************************************)
(* put_config_commands_into, and its commands applied to a fresh processor *)
(***************************************************************************)
notConfigVars == <<verifyVars, serialVars, raspaVars, dispatchVars, encodeVars, reloadVars, gpioVars, crcVars, concatVars, uuidVars, processVars, lifeVars, raceVars>>

\* PinType of a mapper class
PinTypeOf(m) ==
    CASE m.kind = "Digital" -> "DIGITAL_INPUT"
      [] m.kind = "Analog" -> "ANALOG_INPUT"
      [] m.kind = "Imu" -> "IMU_INPUT"

\* put_config_commands_into of the mapper classes: the pin type first, then
\* the configuration the mapper holds
mapper_put_config_commands_into(m, index) ==
    <<[type |-> "SET_PIN_TYPE", index |-> index, data |-> PinTypeOf(m)]>>
    \o IF m.kind \in {"Digital", "Analog"}
       THEN <<[type |-> "SET_SENDING_MODE", index |-> index,
               data |-> m.sending_mode]>>
       ELSE <<>>

\* for (auto& mapper : _mappers) from slot p on
RECURSIVE put_config_commands_from(_, _)
put_config_commands_from(ms, p) ==
    IF p > max_n_pins - 1
    THEN <<>>
    ELSE (IF ms[p] # NullMapper
          THEN mapper_put_config_commands_into(ms[p], p)
          ELSE <<>>) \o put_config_commands_from(ms, p + 1)

\* mutant: the loop misses the first slot
put_config_commands_into_from_second(ms) == put_config_commands_from(ms, 1)

\* MappingProcessor::put_config_commands_into(out_iterator)
put_config_commands_into(ms) == put_config_commands_from(ms, 0)

ConfigIdle ==
    /\ config_commands = <<>>
    /\ replayed = 0
    /\ fresh_mappers = [p \in Pins |-> NullMapper]
    /\ fresh_ok = TRUE
    /\ config_pc = "none"

ConfigInit ==
    /\ config_commands = <<>>
    /\ replayed = 0
    /\ fresh_mappers = [p \in Pins |-> NullMapper]
    /\ fresh_ok = TRUE
    /\ config_pc = "apply"

\* apply_command on the processor being configured
ConfigApply(cmd) ==
    /\ config_pc = "apply"
    /\ ApplyCommand(cmd)

\* put_config_commands_into on the processor, and a fresh processor of the
\* same size constructed
PutConfigCommands ==
    /\ config_pc = "apply"
    /\ config_commands' = put_config_commands_into(mappers)
    /\ replayed' = 0
    /\ fresh_mappers' = [p \in Pins |-> NullMapper]
    /\ fresh_ok' = TRUE
    /\ config_pc' = "replay"
    /\ UNCHANGED mapVars
    /\ UNCHANGED notConfigVars

\* apply_command of the next emitted command on the fresh processor
ReplayCommand ==
    /\ config_pc = "replay"
    /\ replayed < Len(config_commands)
    /\ LET r == apply_command(fresh_mappers, config_commands[replayed + 1]) IN
       /\ fresh_mappers' = r.mappers
       /\ fresh_ok' = (fresh_ok /\ r.status = "OK")
    /\ replayed' = replayed + 1
    /\ UNCHANGED <<config_commands, config_pc>>
    /\ UNCHANGED mapVars
    /\ UNCHANGED notConfigVars

(***************************************************************************)
(* EventHandler::reload_config                                             *)
(***************************************************************************)
\* the commands the configuration source holds: a pin's type for the
\* mapping processor and for the hardware frontend
ConfigurationSource == << <<"COMMAND", "MAPPING">>, <<"COMMAND", "HW_FRONTEND">> >>

notReloadVars == <<verifyVars, mapVars, serialVars, raspaVars, dispatchVars, encodeVars, configVars, gpioVars, crcVars, concatVars, uuidVars, processVars, lifeVars, raceVars>>

ReloadIdle == hwc = "none" /\ n_reloads = 0

ReloadInit == ReloadIdle

\* reload_config(): config::HwFrontendConfig hwc; _config_backend->read(hwc);
reload_config ==
    /\ n_reloads < MaxReloads
    /\ n_reloads' = n_reloads + 1
    /\ hwc' = "read"
    /\ UNCHANGED notReloadVars

(***************************************************************************)
(* GPIO socket backend.  The constructor is in the header; the member      *)
(* functions are declared there with their contract and follow it.         *)
(***************************************************************************)
notGpioVars == <<verifyVars, mapVars, serialVars, raspaVars, dispatchVars, encodeVars, configVars, reloadVars, crcVars, concatVars, uuidVars, processVars, lifeVars, raceVars>>

GpioIdle ==
    /\ connected = FALSE
    /\ gpio_call = "none"
    /\ gpio_result = TRUE
    /\ was_connected = FALSE
    /\ n_gpio_calls = 0
    /\ gpio_sent = 0
    /\ gpio_received = 0

\* GpioHwSocket(gpio_hw_socket_name): _connected(false)
GpioInit == GpioIdle

\* the bookkeeping of one call
GpioCall(result, flag) ==
    /\ n_gpio_calls < MaxGpioCalls
    /\ n_gpio_calls' = n_gpio_calls + 1
    /\ gpio_result' = result
    /\ was_connected' = connected
    /\ connected' = flag
    /\ UNCHANGED notGpioVars

\* init(): _connect_to_gpio_hw_socket succeeds or not
gpio_init(ok) ==
    /\ gpio_call' = "init"
    /\ GpioCall(TRUE, ok)
    /\ UNCHANGED <<gpio_sent, gpio_received>>

\* reconnect_to_gpio_hw(): _connect_to_gpio_hw_socket succeeds or not
reconnect_to_gpio_hw(ok) ==
    /\ gpio_call' = "reconnect"
    /\ GpioCall(TRUE, ok)
    /\ UNCHANGED <<gpio_sent, gpio_received>>

\* send_gpio_packet: a send succeeds only on a connected socket; unable to
\* send, the connection is taken as lost
send_gpio_packet(ok) ==
    /\ ok => connected
    /\ gpio_call' = "send"
    /\ GpioCall(ok, IF ok THEN connected ELSE FALSE)
    /\ gpio_sent' = IF ok THEN gpio_sent + 1 ELSE gpio_sent
    /\ UNCHANGED gpio_received

\* mutant: a failed receive takes the connection as lost too
receive_gpio_packet_flips(ok) ==
    /\ ok => connected
    /\ gpio_call' = "receive"
    /\ GpioCall(ok, IF ok THEN connected ELSE FALSE)
    /\ gpio_received' = IF ok THEN gpio_received + 1 ELSE gpio_received
    /\ UNCHANGED gpio_sent

\* receive_gpio_packet: unable to receive, the flag is left as it is
receive_gpio_packet(ok) ==
    /\ ok => connected
    /\ gpio_call' = "receive"
    /\ GpioCall(ok, connected)
    /\ gpio_received' = IF ok THEN gpio_received + 1 ELSE gpio_received
    /\ UNCHANGED gpio_sent

\* get_status: returns _connected
get_status ==
    /\ gpio_call' = "get_status"
    /\ GpioCall(connected, connected)
    /\ UNCHANGED <<gpio_sent, gpio_received>>

(***************************************************************************)
(* calculate_crc applied to an input packet                                *)
(***************************************************************************)
notCrcVars == <<verifyVars, mapVars, serialVars, raspaVars, dispatchVars, encodeVars, configVars, reloadVars, gpioVars, concatVars, uuidVars, processVars, lifeVars, raceVars>>

\* the unit test's packet test_msg: cmd 0xff, payload bytes 0x8c 0x03 at 4
\* and 0x64 0x01 at 8, timestamp 0x10f6e2e8, crc 0x04c3
TestMsg ==
    [start_header |-> START_SIGNATURE, cmd |-> 255, sub_cmd |-> 0,
     payload |-> <<0, 0, 0, 0, 140, 3, 0, 0, 100, 1>>
                     \o ZeroBytes(SENSEI_PAYLOAD_LENGTH - 10),
     continuation |-> 0, timestamp |-> 284615400, crc |-> 1219,
     stop_header |-> STOP_SIGNATURE]

\* the packets calculate_crc is applied to: every field at its extremes and
\* at the unit test's values
CrcInputs ==
    { [TestMsg EXCEPT !.start_header = sh, !.cmd = cmd, !.sub_cmd = sub,
                      !.payload = pl, !.continuation = cont,
                      !.timestamp = ts, !.crc = crc] :
        sh \in {START_SIGNATURE, <<0, 0, 0>>},
        cmd \in {0, 255}, sub \in {0, 255},
        pl \in {TestMsg.payload, ZeroBytes(SENSEI_PAYLOAD_LENGTH),
                [i \in 1..SENSEI_PAYLOAD_LENGTH |-> 255]},
        cont \in {0, 1},
        ts \in {0, 284615400, 2147483647},
        crc \in {0, 1219} }

CrcIdle == crc_packet = NoPacket /\ crc_result = -1

CrcInit == crc_packet \in CrcInputs /\ crc_result = -1

\* uint16_t crc = calculate_crc(packet)
CalculateCrc ==
    /\ crc_result = -1
    /\ crc_result' = calculate_crc(crc_packet)
    /\ UNCHANGED crc_packet
    /\ UNCHANGED notCrcVars

(***************************************************************************)
(* MessageConcatenator                                                     *)
(***************************************************************************)
notConcatVars == <<verifyVars, mapVars, serialVars, raspaVars, dispatchVars, encodeVars, configVars, reloadVars, gpioVars, crcVars, uuidVars, processVars, lifeVars, raceVars>>

FilledBytes(n, b) == [i \in 1..n |-> b]

\* the packets handed to add: two payloads, the continuation byte clear,
\* set to 1 and set to another non-zero value
ConcatPackets ==
    { [TestMsg EXCEPT !.payload = FilledBytes(SENSEI_PAYLOAD_LENGTH, b),
                      !.continuation = c] :
        b \in {17, 34}, c \in {0, 1, 255} }

\* memcpy(_storage + offset, packet->payload, SENSEI_PAYLOAD_LENGTH)
memcpy(st, offset, payload) ==
    [i \in 1..Len(st) |->
        IF i > offset /\ i <= offset + SENSEI_PAYLOAD_LENGTH
        THEN payload[i - offset] ELSE st[i]]

AddResult(w, st, result) == [waiting |-> w, storage |-> st, result |-> result]

\* mutant: the second half is copied but _waiting is left set
add_keeps_waiting(w, st, p) ==
    IF ~w /\ p.continuation = 0
    THEN AddResult(w, st, p.payload)
    ELSE IF p.continuation # 0
    THEN AddResult(TRUE, memcpy(st, 0, p.payload), <<>>)
    ELSE AddResult(TRUE, memcpy(st, SENSEI_PAYLOAD_LENGTH, p.payload),
                   memcpy(st, SENSEI_PAYLOAD_LENGTH, p.payload))

\* const char* MessageConcatenator::add(packet)
add(w, st, p) ==
    IF ~w /\ p.continuation = 0
    THEN AddResult(w, st, p.payload)
    ELSE IF p.continuation # 0
    THEN AddResult(TRUE, memcpy(st, 0, p.payload), <<>>)
    ELSE IF w /\ p.continuation = 0
    THEN AddResult(FALSE, memcpy(st, SENSEI_PAYLOAD_LENGTH, p.payload),
                   memcpy(st, SENSEI_PAYLOAD_LENGTH, p.payload))
    ELSE AddResult(w, st, <<>>)

ConcatIdle ==
    /\ waiting = FALSE
    /\ storage = FilledBytes(2 * SENSEI_PAYLOAD_LENGTH, 0)
    /\ concat_packet = NoPacket
    /\ concat_result = <<>>
    /\ was_waiting = FALSE
    /\ last_half = <<>>
    /\ n_adds = 0

\* MessageConcatenator() : _waiting{false}; _storage is not initialised and
\* holds any bytes
ConcatInit ==
    /\ waiting = FALSE
    /\ storage \in {FilledBytes(2 * SENSEI_PAYLOAD_LENGTH, 0),
                    FilledBytes(2 * SENSEI_PAYLOAD_LENGTH, 170)}
    /\ concat_packet = NoPacket
    /\ concat_result = <<>>
    /\ was_waiting = FALSE
    /\ last_half = <<>>
    /\ n_adds = 0

\* one call of add
Add(p) ==
    /\ n_adds < MaxAdds
    /\ n_adds' = n_adds + 1
    /\ LET r == add(waiting, storage, p) IN
       /\ waiting' = r.waiting
       /\ storage' = r.storage
       /\ concat_result' = r.result
    /\ concat_packet' = p
    /\ was_waiting' = waiting
    /\ last_half' = IF p.continuation # 0 THEN p.payload ELSE last_half
    /\ UNCHANGED notConcatVars

(***************************************************************************)
(* extract_uuid.  A uint64_t is four 16-bit limbs, least significant       *)
(* first; a uint32_t timestamp is its two 16-bit halves, low half first.   *)
(***************************************************************************)
notUuidVars == <<verifyVars, mapVars, serialVars, raspaVars, dispatchVars, encodeVars, configVars, reloadVars, gpioVars, crcVars, concatVars, processVars, lifeVars, raceVars>>

Limb == 65536

\* uint64_t uuid = timestamp
u64_from_u32(ts) == <<ts[1], ts[2], 0, 0>>

\* static_cast<uint64_t>(v) << 32 and << 48, v an 8-bit field
u64_shl_32(v) == <<0, 0, v, 0>>
u64_shl_48(v) == <<0, 0, 0, v>>
\* static_cast<uint64_t>(v) << 16
u64_shl_16(v) == <<0, v, 0, 0>>

\* a + b on uint64_t: the carry runs through the limbs and leaves at 2^64
u64_add(a, b) ==
    LET s0 == a[1] + b[1]
        s1 == a[2] + b[2] + (s0 \div Limb)
        s2 == a[3] + b[3] + (s1 \div Limb)
        s3 == a[4] + b[4] + (s2 \div Limb)
    IN  <<s0 % Limb, s1 % Limb, s2 % Limb, s3 % Limb>>

RECURSIVE BitOr(_, _)
BitOr(x, y) ==
    IF x = 0 THEN y
    ELSE IF y = 0 THEN x
    ELSE (IF x % 2 = 1 \/ y % 2 = 1 THEN 1 ELSE 0) + 2 * BitOr(x \div 2, y \div 2)

\* a | b on uint64_t
u64_or(a, b) == [i \in 1..4 |-> BitOr(a[i], b[i])]

\* mutant: cmd is shifted by 16 bits, into the timestamp
extract_uuid_cmd_shift_16(p) ==
    u64_add(u64_add(u64_from_u32(p.timestamp), u64_shl_16(p.cmd)),
            u64_shl_48(p.sub_cmd))

\* extract_uuid(const sSenseiACKPacket* ack)
extract_uuid_ack(ack) ==
    u64_add(u64_add(u64_from_u32(ack.timestamp), u64_shl_32(ack.cmd)),
            u64_shl_48(ack.sub_cmd))

\* extract_uuid(const sSenseiDataPacket* packet)
extract_uuid(p) ==
    u64_add(u64_add(u64_from_u32(p.timestamp), u64_shl_32(p.cmd)),
            u64_shl_48(p.sub_cmd))

\* the uuid fields of the packets extract_uuid is applied to: each field at
\* its extremes, and the unit test's timestamp 0x10f6e2e8
UuidInputs ==
    [timestamp : {<<0, 0>>, <<1, 0>>, <<58088, 4342>>, <<65535, 65535>>},
     cmd : {0, 1, 250, 255},
     sub_cmd : {0, 1, 255}]

NoUuidInput == [timestamp |-> <<0, 0>>, cmd |-> -1, sub_cmd |-> -1]

UuidIdle ==
    /\ uuid_data = NoUuidInput
    /\ uuid_ack = NoUuidInput
    /\ uuid_of_data = <<>>
    /\ uuid_of_ack = <<>>

UuidInit ==
    /\ uuid_data \in UuidInputs
    /\ uuid_ack \in UuidInputs
    /\ uuid_of_data = <<>>
    /\ uuid_of_ack = <<>>

\* uint64_t uuid = extract_uuid(packet)
ExtractUuidData ==
    /\ uuid_of_data = <<>>
    /\ uuid_of_data' = extract_uuid(uuid_data)
    /\ UNCHANGED <<uuid_data, uuid_ack, uuid_of_ack>>
    /\ UNCHANGED notUuidVars

\* uint64_t uuid = extract_uuid(ack)
ExtractUuidAck ==
    /\ uuid_of_ack = <<>>
    /\ uuid_of_ack' = extract_uuid_ack(uuid_ack)
    /\ UNCHANGED <<uuid_data, uuid_ack, uuid_of_data>>
    /\ UNCHANGED notUuidVars

(***************************************************************************)
(* MappingProcessor::process                                               *)
(***************************************************************************)
notProcessVars == <<verifyVars, mapVars, serialVars, raspaVars, dispatchVars, encodeVars, configVars, reloadVars, gpioVars, crcVars, concatVars, uuidVars, lifeVars, raceVars>>

\* the values handed to process: in-range pins and -1, max_n_pins,
\* max_n_pins + 1
ProcessValues == [index : -1..(max_n_pins + 1), value : 0..MaxData]

NoValue == [index |-> -2, value |-> 0]

\* what _mappers[i] yields for i outside the vector: the read is undefined,
\* the word found there is null or any pointer
OutOfBoundsSlots == {NullMapper, DigitalSensorMapper, AnalogSensorMapper, ImuMapper}

\* the mapper's process: one output for the value, or none when the sending
\* mode holds it back
mapper_process(m, v, emit) ==
    IF emit THEN <<[index |-> v.index, value |-> v.value, kind |-> m.kind]>>
    ELSE <<>>

\* _mappers[sensor_index], line 89: no test of sensor_index precedes it
MapperAt(ms, sensor_index, slot) ==
    IF sensor_index \in DOMAIN ms THEN ms[sensor_index] ELSE slot

ProcessIdle ==
    /\ proc_value = NoValue
    /\ proc_unmapped = FALSE
    /\ proc_oob = FALSE
    /\ proc_outcome = "none"
    /\ backend_sent = <<>>
    /\ proc_kept = TRUE

ProcessInit == ProcessIdle

\* process(value, backend): slot is the word an out-of-range read finds,
\* emit the mapper's decision to send, crash the fate of a call through a
\* pointer that is no mapper
Process(v, slot, emit, crash) ==
    LET sensor_index == v.index
        m == MapperAt(mappers, sensor_index, slot)
        oob == sensor_index \notin DOMAIN mappers
    IN  /\ UNCHANGED notProcessVars
        /\ proc_value' = v
        /\ proc_oob' = oob
        /\ proc_unmapped' = (oob \/ m = NullMapper)
        /\ proc_kept' = (mappers' = mappers)
        /\ IF m # NullMapper
           THEN IF oob /\ crash
                THEN proc_outcome' = "crashed" /\ backend_sent' = <<>>
                ELSE /\ proc_outcome' = "mapper"
                     /\ backend_sent' = mapper_process(m, v, emit)
           ELSE /\ ~emit /\ ~crash
                /\ proc_outcome' = "logged"
                /\ backend_sent' = <<>>
        /\ (~oob => slot = NullMapper /\ ~crash)

(***************************************************************************)
(* The Raspa frontend's shared flags.  Their declarations are in the       *)
(* header; which thread reads and writes which flag follows the design     *)
(* document's threading model.                                             *)
(***************************************************************************)
notRaceVars == <<verifyVars, mapVars, serialVars, raspaVars, dispatchVars, encodeVars, configVars, reloadVars, gpioVars, crcVars, concatVars, uuidVars, processVars, lifeVars>>

RaceThreads == {"dispatcher", "reader", "writer"}

FrontendFlags == {"state", "connected", "muted", "verify_acks"}

\* std::atomic<ThreadState> _state; bool _connected; bool _muted;
\* bool _verify_acks
IsAtomicFlag(f) == f = "state"

NoAccess == [flag |-> "none", kind |-> "none", value |-> FALSE, raced |-> FALSE]

\* another thread is in the middle of an access to f, and it or this access
\* writes
Conflicts(t, f, kind) ==
    \E u \in RaceThreads \ {t} :
        /\ accessing[u].flag = f
        /\ kind = "write" \/ accessing[u].kind = "write"

\* thread t starts to read or write flag f; no mutex is taken
BeginAccess(t, f, kind, v) ==
    LET race == ~IsAtomicFlag(f) /\ Conflicts(t, f, kind) IN
    /\ accessing[t].flag = "none"
    /\ accessing' = [u \in RaceThreads |->
                        IF u = t
                        THEN [flag |-> f, kind |-> kind, value |-> v, raced |-> race]
                        ELSE IF race /\ accessing[u].flag = f
                        THEN [accessing[u] EXCEPT !.raced = TRUE]
                        ELSE accessing[u]]
    /\ raced' = IF race THEN raced \cup {f} ELSE raced
    /\ UNCHANGED flag_value
    /\ UNCHANGED notRaceVars

RaceIdle ==
    /\ flag_value = [state |-> "STOPPED", connected |-> FALSE, muted |-> FALSE,
                     verify_acks |-> FALSE]
    /\ accessing = [t \in RaceThreads |-> NoAccess]
    /\ raced = {}

\* RaspaFrontend::RaspaFrontend
RaceInit == RaceIdle

\* thread t completes its access; a write that raced leaves any value
EndAccess(t, torn) ==
    LET a == accessing[t] IN
    /\ a.flag # "none"
    /\ (a.kind = "write" /\ a.raced) \/ torn = FALSE
    /\ flag_value' = IF a.kind = "write"
                     THEN [flag_value EXCEPT ![a.flag] =
                              IF a.raced THEN torn ELSE a.value]
                     ELSE flag_value
    /\ accessing' = [accessing EXCEPT ![t] = NoAccess]
    /\ UNCHANGED raced
    /\ UNCHANGED notRaceVars

\* run() on the dispatcher: _state = RUNNING, the I/O threads start
raspa_run ==
    /\ flag_value.state = "STOPPED"
    /\ BeginAccess("dispatcher", "state", "write", "RUNNING")

\* stop() on the dispatcher: _state = STOPPING, then the joins
raspa_stop ==
    /\ flag_value.state = "RUNNING"
    /\ BeginAccess("dispatcher", "state", "write", "STOPPING")

\* stop(): both threads joined, _state = STOPPED
raspa_joined ==
    /\ flag_value.state = "STOPPING"
    /\ accessing["reader"].flag = "none" /\ accessing["writer"].flag = "none"
    /\ BeginAccess("dispatcher", "state", "write", "STOPPED")

\* mute(enabled) on the dispatcher
raspa_mute(enabled) ==
    /\ enabled \in BOOLEAN
    /\ BeginAccess("dispatcher", "muted", "write", enabled)

\* verify_acks(enabled) on the dispatcher
raspa_verify_acks(enabled) ==
    /\ enabled \in BOOLEAN
    /\ BeginAccess("dispatcher", "verify_acks", "write", enabled)

\* connected() on the dispatcher
raspa_connected ==
    /\ flag_value.state \in {"STOPPED", "RUNNING", "STOPPING"}
    /\ BeginAccess("dispatcher", "connected", "read", FALSE)

\* read_loop: the loop test of _state
RaspaReaderTestState ==
    /\ flag_value.state # "STOPPED"
    /\ BeginAccess("reader", "state", "read", FALSE)

\* read_loop: a decoded packet is dropped if _muted
RaspaReaderTestMuted ==
    /\ flag_value.state = "RUNNING"
    /\ BeginAccess("reader", "muted", "read", FALSE)

\* read_loop: the link came up or went down
RaspaReaderSetConnected(up) ==
    /\ flag_value.state = "RUNNING"
    /\ BeginAccess("reader", "connected", "write", up)

\* write_loop: the loop test of _state
RaspaWriterTestState ==
    /\ flag_value.state # "STOPPED"
    /\ BeginAccess("writer", "state", "read", FALSE)

\* write_loop: a sent packet is tracked if _verify_acks
RaspaWriterTestVerifyAcks ==
    /\ flag_value.state = "RUNNING"
    /\ BeginAccess("writer", "verify_acks", "read", FALSE)

(***************************************************************************)
(* Specifications                                                          *)
(***************************************************************************)
\* the serial frontend with its reader, its writer, its owner and producers
Init == SerialInit /\ VerifyIdle /\ MapIdle /\ RaspaIdle /\ DispatchIdle /\ EncodeIdle /\ ConfigIdle /\ ReloadIdle /\ GpioIdle /\ CrcIdle /\ ConcatIdle /\ UuidIdle /\ ProcessIdle /\ LifeIdle /\ RaceIdle

Next ==
    \/ RunCheck \/ RunChangeState \/ RunStartRead \/ RunStartWrite
    \/ StopReturn \/ StopChangeState \/ StopJoinRead \/ StopJoinWrite
    \/ \E b \in BOOLEAN : Mute(b)
    \/ \E c \in TxCommands : PushCommand(c)
    \/ ReaderTest \/ ReaderShortRead \/ ReaderExit
    \/ \E p \in RxPackets : ReaderPacket(p)
    \/ WriterTest \/ WriterTimeout \/ WriterSend \/ WriterExit

Spec == Init /\ [][Next]_vars

\* the serial frontend with its threads scheduled fairly, for run() and
\* stop(): the transport read and the queue wait return within their
\* timeout, so a thread that can take a step takes one, and so does stop()
\* once a join can return.  The port delivers the unit test's value packet
\* and the producers push the unit test's command.
StopPacket ==
    MakePacket(START_SIGNATURE, SENSEI_CMD_GET_VALUE, 0,
               ValuePayload(12, 35, PIN_ANALOG_INPUT), 0, 1234, 0, STOP_SIGNATURE)

StopCommand ==
    [tag |-> "SET_SENDING_DELTA_TICKS", index |-> 3, data |-> 5, timestamp |-> 100]

InitStop == Init

ReaderStep == ReaderTest \/ ReaderShortRead \/ ReaderPacket(StopPacket) \/ ReaderExit

WriterStep == WriterTest \/ WriterTimeout \/ WriterSend \/ WriterExit

StopNext ==
    \/ RunCheck \/ RunChangeState \/ RunStartRead \/ RunStartWrite
    \/ StopReturn \/ StopChangeState \/ StopJoinRead \/ StopJoinWrite
    \/ \E b \in BOOLEAN : Mute(b)
    \/ PushCommand(StopCommand)
    \/ ReaderStep
    \/ WriterStep

SpecStop ==
    /\ InitStop
    /\ [][StopNext]_vars
    /\ WF_vars(ReaderStep)
    /\ WF_vars(WriterStep)
    /\ WF_vars(StopJoinRead)
    /\ WF_vars(StopJoinWrite)

\* verify_message on every input packet
InitVerify == VerifyInit /\ MapIdle /\ SerialIdle /\ RaspaIdle /\ DispatchIdle /\ EncodeIdle /\ ConfigIdle /\ ReloadIdle /\ GpioIdle /\ CrcIdle /\ ConcatIdle /\ UuidIdle /\ ProcessIdle /\ LifeIdle /\ RaceIdle

VerifyNext == VerifyMessage

SpecVerify == InitVerify /\ [][VerifyNext]_vars

\* the mapping processor under any sequence of apply_command calls
InitMapping == MapInit /\ VerifyIdle /\ SerialIdle /\ RaspaIdle /\ DispatchIdle /\ EncodeIdle /\ ConfigIdle /\ ReloadIdle /\ GpioIdle /\ CrcIdle /\ ConcatIdle /\ UuidIdle /\ ProcessIdle /\ LifeIdle /\ RaceIdle

MapNext == \E cmd \in MapCommands : ApplyCommand(cmd)

SpecMapping == InitMapping /\ [][MapNext]_vars

\* the Raspa writer, the board and the reader's ack handling; the writer's
\* steps are taken whenever they stay possible (its waits are timed)
InitRaspa == RaspaInit /\ VerifyIdle /\ MapIdle /\ SerialIdle /\ DispatchIdle /\ EncodeIdle /\ ConfigIdle /\ ReloadIdle /\ GpioIdle /\ CrcIdle /\ ConcatIdle /\ UuidIdle /\ ProcessIdle /\ LifeIdle /\ RaceIdle

RaspaNext ==
    \/ \E tag \in {"SET_PIN_TYPE", "SET_SENDING_MODE"} : RaspaPushCommand(tag)
    \/ ProcessSenseiCommand
    \/ RaspaSend
    \/ RaspaTimeout
    \/ \E n \in SequenceNumbers : BoardAck(n)
    \/ \E n \in SequenceNumbers : HandleAck(n)

SpecRaspa ==
    /\ InitRaspa
    /\ [][RaspaNext]_vars
    /\ WF_vars(ProcessSenseiCommand)
    /\ WF_vars(RaspaSend)
    /\ WF_vars(RaspaTimeout)

\* the dispatcher with producers on the event queue and the frontend's
\* writer on the to-frontend queue
InitDispatch == DispatchInit /\ VerifyIdle /\ MapIdle /\ SerialIdle /\ RaspaIdle /\ EncodeIdle /\ ConfigIdle /\ ReloadIdle /\ GpioIdle /\ CrcIdle /\ ConcatIdle /\ UuidIdle /\ ProcessIdle /\ LifeIdle /\ RaceIdle

DispatchNext ==
    \/ \E kind \in EventKinds : PushEvent(kind)
    \/ handle_events
    \/ handle_command
    \/ handle_value
    \/ handle_error
    \/ FrontendTake

SpecDispatch == InitDispatch /\ [][DispatchNext]_vars

\* create_send_command on every command, then the packet decoded
InitEncode ==
    EncodeInit /\ VerifyIdle /\ MapIdle /\ SerialIdle /\ RaspaIdle /\ DispatchIdle /\ ConfigIdle /\ ReloadIdle /\ GpioIdle /\ CrcIdle /\ ConcatIdle /\ UuidIdle /\ ProcessIdle /\ LifeIdle /\ RaceIdle

EncodeNext == Encode \/ Decode

SpecEncode == InitEncode /\ [][EncodeNext]_vars

\* a processor configured by any commands, its configuration emitted and
\* replayed on a fresh processor
InitConfig ==
    ConfigInit /\ MapInit /\ VerifyIdle /\ SerialIdle /\ RaspaIdle /\ DispatchIdle /\ EncodeIdle /\ ReloadIdle /\ GpioIdle /\ CrcIdle /\ ConcatIdle /\ UuidIdle /\ ProcessIdle /\ LifeIdle /\ RaceIdle

ConfigNext ==
    \/ \E cmd \in MapCommands : ConfigApply(cmd)
    \/ PutConfigCommands
    \/ ReplayCommand

SpecConfig == InitConfig /\ [][ConfigNext]_vars

\* the dispatcher, with reload_config called at any time
InitReload ==
    ReloadInit /\ DispatchInit /\ VerifyIdle /\ MapIdle /\ SerialIdle /\ RaspaIdle /\ EncodeIdle /\ ConfigIdle /\ GpioIdle /\ CrcIdle /\ ConcatIdle /\ UuidIdle /\ ProcessIdle /\ LifeIdle /\ RaceIdle

ReloadNext == DispatchNext \/ reload_config

SpecReload == InitReload /\ [][ReloadNext]_vars

\* any sequence of calls on the GPIO socket backend
InitGpio ==
    GpioInit /\ VerifyIdle /\ MapIdle /\ SerialIdle /\ RaspaIdle /\ DispatchIdle /\ EncodeIdle /\ ConfigIdle /\ ReloadIdle /\ CrcIdle /\ ConcatIdle /\ UuidIdle /\ ProcessIdle /\ LifeIdle /\ RaceIdle

GpioNext ==
    \/ \E ok \in BOOLEAN : gpio_init(ok)
    \/ \E ok \in BOOLEAN : reconnect_to_gpio_hw(ok)
    \/ \E ok \in BOOLEAN : send_gpio_packet(ok)
    \/ \E ok \in BOOLEAN : receive_gpio_packet(ok)
    \/ get_status

SpecGpio == InitGpio /\ [][GpioNext]_vars

\* calculate_crc on every input packet
InitCrc ==
    CrcInit /\ VerifyIdle /\ MapIdle /\ SerialIdle /\ RaspaIdle /\ DispatchIdle /\ EncodeIdle /\ ConfigIdle /\ ReloadIdle /\ GpioIdle /\ ConcatIdle /\ UuidIdle /\ ProcessIdle /\ LifeIdle /\ RaceIdle

CrcNext == CalculateCrc

SpecCrc == InitCrc /\ [][CrcNext]_vars

\* any sequence of add calls on a concatenator
InitConcat ==
    ConcatInit /\ VerifyIdle /\ MapIdle /\ SerialIdle /\ RaspaIdle /\ DispatchIdle /\ EncodeIdle /\ ConfigIdle /\ ReloadIdle /\ GpioIdle /\ CrcIdle /\ UuidIdle /\ ProcessIdle /\ LifeIdle /\ RaceIdle

ConcatNext == \E p \in ConcatPackets : Add(p)

SpecConcat == InitConcat /\ [][ConcatNext]_vars

\* extract_uuid on every pair of a data packet and an ack packet
InitUuid ==
    UuidInit /\ VerifyIdle /\ MapIdle /\ SerialIdle /\ RaspaIdle /\ DispatchIdle /\ EncodeIdle /\ ConfigIdle /\ ReloadIdle /\ GpioIdle /\ CrcIdle /\ ConcatIdle /\ ProcessIdle /\ LifeIdle /\ RaceIdle

UuidNext == ExtractUuidData \/ ExtractUuidAck

SpecUuid == InitUuid /\ [][UuidNext]_vars

\* apply_command and process calls on a mapping processor, in any order
InitProcess ==
    ProcessInit /\ MapInit /\ VerifyIdle /\ SerialIdle /\ RaspaIdle /\ DispatchIdle /\ EncodeIdle /\ ConfigIdle /\ ReloadIdle /\ GpioIdle /\ CrcIdle /\ ConcatIdle /\ UuidIdle /\ LifeIdle /\ RaceIdle

ProcessApply(cmd) ==
    /\ ApplyCommand(cmd)
    /\ UNCHANGED processVars

\* the commands that give the pins their mappers
ProcessCommands ==
    [type : {"SET_PIN_TYPE"}, index : Pins, data : {"DIGITAL_INPUT", "IMU_INPUT"}]

ProcessNext ==
    \/ \E cmd \in ProcessCommands : ProcessApply(cmd)
    \/ \E v \in ProcessValues, slot \in OutOfBoundsSlots, emit \in BOOLEAN,
          crash \in BOOLEAN : Process(v, slot, emit, crash)

SpecProcess == InitProcess /\ [][ProcessNext]_vars

\* the serial frontend with two threads calling run() and stop(), the port
\* silent and no commands queued
InitLife == Init

LifeNext ==
    \/ RunCheck \/ RunChangeState \/ RunStartRead \/ RunStartWrite
    \/ StopReturn \/ StopChangeState \/ StopJoinRead \/ StopJoinWrite
    \/ Run2Check \/ Run2ChangeState \/ Run2StartRead \/ Run2StartWrite
    \/ Stop2ChangeState \/ Stop2JoinRead \/ Stop2JoinWrite
    \/ ReaderTest \/ ReaderShortRead \/ ReaderExit
    \/ WriterTest \/ WriterTimeout \/ WriterExit

SpecLife == InitLife /\ [][LifeNext]_vars

\* the dispatcher's calls on a Raspa frontend and its two I/O threads
InitRace ==
    RaceInit /\ VerifyIdle /\ MapIdle /\ SerialIdle /\ RaspaIdle /\ DispatchIdle /\ EncodeIdle /\ ConfigIdle /\ ReloadIdle /\ GpioIdle /\ CrcIdle /\ ConcatIdle /\ UuidIdle /\ ProcessIdle /\ LifeIdle

RaceNext ==
    \/ raspa_run \/ raspa_stop \/ raspa_joined \/ raspa_connected
    \/ \E b \in BOOLEAN : raspa_mute(b) \/ raspa_verify_acks(b)
    \/ RaspaReaderTestState \/ RaspaReaderTestMuted
    \/ \E b \in BOOLEAN : RaspaReaderSetConnected(b)
    \/ RaspaWriterTestState \/ RaspaWriterTestVerifyAcks
    \/ \E t \in RaceThreads, torn \in BOOLEAN : EndAccess(t, torn)

SpecRace == InitRace /\ [][RaceNext]_vars

(***************************************************************************)
(* Claims                                                                  *)
(***************************************************************************)
\* C1: verify_message(P) is true iff both headers equal the magic byte for
\* byte and calculate_crc(P) = P.crc; a header differing from the magic in
\* any position is rejected.
C1_VerifyIffExact ==
    verify_result # "none" =>
        (verify_result = "accept" <=>
            /\ packet.start_header = START_SIGNATURE
            /\ packet.stop_header = STOP_SIGNATURE
            /\ calculate_crc(packet) = packet.crc)

\* C2: while the frontend is muted no packet read from the port, valid or
\* corrupt, puts a message on the event queue, and muting or unmuting leaves
\* the reader and the writer running.
C2_MutedPushesNothing ==
    [][ /\ muted => out_queue' = out_queue
        /\ muted' # muted =>
             UNCHANGED <<read_thread_state, write_thread_state, rpc, wpc>> ]_vars

\* C3: the packets written to the wire are the encodings of a prefix of the
\* commands pushed onto the to-frontend queue: same order, none skipped or
\* dropped whatever its tag, none written twice.
C3_WireIsPrefixOfPushed ==
    /\ Len(wire) <= Len(pushed)
    /\ \A i \in 1..Len(wire) : wire[i] = create_send_command(pushed[i])

\* the reader's step that processes the packet p read from the port
ReaderProcesses(p) ==
    rpc = "read" /\ rpc' = "loop" /\ n_reads' = n_reads + 1 /\ buffer' = p

\* the value message the design asks for: logical index of the table
LogicalValueMessage(p) ==
    [type |-> IF PayloadPinType(p) = PIN_DIGITAL_INPUT
              THEN "DIGITAL_VALUE" ELSE "ANALOG_VALUE",
     index |-> pin_to_id_table[PayloadPinId(p)],
     value |-> PayloadValue(p), timestamp |-> p.timestamp]

\* C11: a valid value packet with hardware pin h, a digital or analog pin
\* type, value v and timestamp t pushes exactly one value message with
\* index pin_to_id_table[h], value v and timestamp t
C11_ValueIndexIsLogical ==
    [][\A p \in RxPackets :
          (/\ ReaderProcesses(p)
           /\ verify_message(p)
           /\ p.cmd = SENSEI_CMD_GET_VALUE
           /\ PayloadPinType(p) \in {PIN_DIGITAL_INPUT, PIN_ANALOG_INPUT})
          => out_queue' = Append(out_queue, LogicalValueMessage(p))]_vars

ContinuousValue(index, value, timestamp) ==
    [type |-> "CONTINUOUS_VALUE", index |-> index, value |-> value,
     timestamp |-> timestamp]

\* C12: an IMU packet pushes one ContinuousValue per configured axis, in
\* the order yaw, pitch, roll, each with the axis's index: three messages
\* with all three axes configured
C12_ImuPacketPushesPerAxis ==
    [][ReaderProcesses(ImuPacket)
          => out_queue' = out_queue \o
                 << ContinuousValue(imu_sensor_index.YAW, 0, ImuPacket.timestamp),
                    ContinuousValue(imu_sensor_index.PITCH, 0, ImuPacket.timestamp),
                    ContinuousValue(imu_sensor_index.ROLL, 0, ImuPacket.timestamp) >>]_vars

\* C13: the packet encoded from SET_SENDING_DELTA_TICKS with ticks d or from
\* SET_LOWPASS_CUTOFF with cutoff c has cmd CONFIGURE_PIN and carries d in
\* deltaTicksContinuousMode, c in lowPassCutOffFilter, for the command's pin
C13_ConfigValueEncoded ==
    enc_pc \in {"encoded", "decoded"} =>
        /\ enc_command.tag = "SET_SENDING_DELTA_TICKS" =>
               /\ enc_packet.cmd = "CONFIGURE_PIN"
               /\ PinConfiguration(enc_packet).idxPin = enc_command.index
               /\ PinConfiguration(enc_packet).deltaTicksContinuousMode
                      = enc_command.data
        /\ enc_command.tag = "SET_LOWPASS_CUTOFF" =>
               /\ enc_packet.cmd = "CONFIGURE_PIN"
               /\ PinConfiguration(enc_packet).idxPin = enc_command.index
               /\ PinConfiguration(enc_packet).lowPassCutOffFilter
                      = enc_command.data

\* C13 witness: the unit test's two commands were encoded
C13_Witness ==
    /\ enc_pc = "encoded"
    /\ \/ enc_command = [tag |-> "SET_SENDING_DELTA_TICKS", index |-> 3,
                         data |-> 5, timestamp |-> 100]
       \/ enc_command = [tag |-> "SET_LOWPASS_CUTOFF", index |-> 4,
                         data |-> 1234, timestamp |-> 100]
    /\ enc_packet.value = enc_command.data

\* C14: every command tag has an encoding, and decoding the encoded packet
\* yields the command again, up to its timestamp
C14_DecodeOfEncodeIsCommand ==
    /\ enc_pc \in {"encoded", "decoded"} => enc_packet # NullPacket
    /\ enc_pc = "decoded" =>
           /\ enc_decoded.type = enc_command.tag
           /\ enc_decoded.index = enc_command.index
           /\ enc_decoded.value = enc_command.data

C17_StopTerminates ==
    /\ (cpc = "stop_join_read") ~> (cpc = "idle")
    /\ [][(cpc = "stop_join_write" /\ cpc' = "idle") =>
             /\ read_thread_state' = "STOPPED"
             /\ write_thread_state' = "STOPPED"
             /\ rpc' = "none"
             /\ wpc' = "none"]_vars
    /\ [][/\ rpc = "none" => (n_reads' = n_reads /\ out_queue' = out_queue)
          /\ wpc = "none" => (wire' = wire /\ Len(in_queue') >= Len(in_queue))]_vars

\* C17 witness: stop() has returned after the reader read a packet and the
\* writer wrote one
C17_Witness ==
    /\ cpc = "idle"
    /\ read_thread_state = "STOPPED"
    /\ write_thread_state = "STOPPED"
    /\ rpc = "none"
    /\ wpc = "none"
    /\ n_reads >= 1
    /\ Len(wire) >= 1

\* C18: a failed send_gpio_packet returns false and leaves the connected
\* flag false, a failed receive_gpio_packet returns false and leaves the
\* flag as it was, get_status returns the flag, which is false on
\* construction
C18_SendFailureDisconnects ==
    /\ gpio_call = "none" => ~connected
    /\ (gpio_call = "send" /\ ~gpio_result) => ~connected
    /\ (gpio_call = "receive" /\ ~gpio_result) => connected = was_connected
    /\ gpio_call = "get_status" =>
           (gpio_result = connected /\ connected = was_connected)

\* C18 witness: a receive failed on a connected socket after earlier calls
C18_Witness ==
    /\ gpio_call = "receive"
    /\ ~gpio_result
    /\ was_connected
    /\ connected
    /\ n_gpio_calls >= 2

\* the fields the checksum is claimed to cover
SameScannedFields(p, q) ==
    /\ p.cmd = q.cmd
    /\ p.sub_cmd = q.sub_cmd
    /\ p.continuation = q.continuation
    /\ p.timestamp = q.timestamp
    /\ p.payload = q.payload

\* C19: calculate_crc(P) is cmd + sub_cmd + the sum of every byte of
\* continuation, timestamp and payload, modulo 2^16, and packets that
\* agree on those fields have the same checksum whatever their headers and
\* crc field
C19_CrcIsSumOfScannedFields ==
    crc_result # -1 =>
        /\ crc_result =
               (crc_packet.cmd + crc_packet.sub_cmd + crc_packet.continuation
                + SumSeq(LEBytes(crc_packet.timestamp, 4))
                + SumSeq(crc_packet.payload)) % 65536
        /\ \A q \in CrcInputs :
               SameScannedFields(crc_packet, q) => calculate_crc(q) = crc_result

\* C19 witness: the checksum of the unit test's packet, 0x04c3, computed for
\* a packet with the same scanned fields and other headers and crc field
C19_Witness ==
    /\ SameScannedFields(crc_packet, TestMsg)
    /\ crc_packet.start_header # TestMsg.start_header
    /\ crc_packet.crc # TestMsg.crc
    /\ crc_result = 1219

\* C20: add(p) returns nothing iff p has the continuation flag set; a
\* packet without the flag that follows a continuation packet returns the
\* last continuation packet's payload followed by its own, one that
\* arrives with no half pending returns its own payload; and after each
\* call the concatenator waits for a second half iff p had the flag set
C20_ConcatenatorJoinsTwoHalves ==
    n_adds >= 1 =>
        /\ concat_result = <<>> <=> concat_packet.continuation # 0
        /\ (concat_packet.continuation = 0 /\ was_waiting) =>
               concat_result = last_half \o concat_packet.payload
        /\ (concat_packet.continuation = 0 /\ ~was_waiting) =>
               concat_result = concat_packet.payload
        /\ waiting <=> concat_packet.continuation # 0

\* C20 witness: a second half joined to the later of two continuation
\* packets, the halves differing
C20_Witness ==
    /\ n_adds >= 3
    /\ was_waiting
    /\ concat_packet.continuation = 0
    /\ Len(concat_result) = 2 * SENSEI_PAYLOAD_LENGTH
    /\ last_half # concat_packet.payload
    /\ concat_result = last_half \o concat_packet.payload

\* number of times the packet with sequence number n was put on the wire
TimesSent(n) ==
    Cardinality({i \in 1..Len(raspa_wire) : raspa_wire[i].sequence_no = n})

Unacknowledged == {n \in SequenceNumbers : outcome[n] = "pending"}

\* C4: with ack verification at most one sent command is unacknowledged in
\* every reachable state: the writer is blocked exactly while the tracked
\* packet is pending, and no packet of the send list has been sent
C4_AtMostOneUnacked ==
    verify_acks =>
        /\ Cardinality(Unacknowledged) <= 1
        /\ ~ready_to_send <=> Unacknowledged # {}
        /\ ~ready_to_send =>
               /\ Unacknowledged = {pending_sequence_number}
               /\ tracked.sequence_no = pending_sequence_number
        /\ \A i \in 1..Len(send_list) : TimesSent(send_list[i].sequence_no) = 0

\* C4 witness: a command is pending while the next one waits on the send list
C4_Witness ==
    /\ verify_acks
    /\ ~ready_to_send
    /\ outcome[pending_sequence_number] = "pending"
    /\ TimesSent(pending_sequence_number) >= 1
    /\ send_list # <<>>

\* C5: with ack verification a command whose ack does not arrive is sent
\* MaxAttempts times at most, a command given up was sent MaxAttempts times
\* and left an ERROR (TIMEOUT_ON_RESPONSE) on the event queue, a blocked
\* writer is always released, and every packet of the send list is sent
C5_TimeoutRetriesThenError ==
    /\ [](\A n \in SequenceNumbers :
            /\ TimesSent(n) <= MaxAttempts
            /\ outcome[n] = "timeout" =>
                   /\ TimesSent(n) = MaxAttempts
                   /\ \E i \in 1..Len(raspa_out_queue) :
                          raspa_out_queue[i] = TimeoutError(n))
    /\ (~ready_to_send) ~> ready_to_send
    /\ \A n \in SequenceNumbers :
           (\E i \in 1..Len(send_list) : send_list[i].sequence_no = n)
               ~> (TimesSent(n) >= 1)

\* C5 witness: a command timed out after its last attempt and the command
\* after it went out
C5_Witness ==
    /\ verify_acks
    /\ \E n \in SequenceNumbers :
           /\ outcome[n] = "timeout"
           /\ TimesSent(n) = MaxAttempts
           /\ \E m \in SequenceNumbers : m > n /\ TimesSent(m) >= 1

IsFrontendCommand(m) == m.base_type = "COMMAND" /\ m.target = "HW_FRONTEND"

\* C6: messages are routed in the order they were pushed onto the event
\* queue, the routing of a message starts after that of every earlier one
\* completed, and the commands for the hardware frontend are put on the
\* to-frontend queue in event queue order
C6_RoutingIsFifo ==
    /\ \A i \in 1..Len(routed) : routed[i].id = i
    /\ handling # NoEvent => handling.id = Len(routed) + 1
    /\ \A i \in 1..Len(event_queue) :
           event_queue[i].id = n_events - Len(event_queue) + i
    /\ forwarded = SelectSeq(routed, IsFrontendCommand)
    /\ \A i \in 1..Len(to_frontend_queue) :
           to_frontend_queue[i] =
               forwarded[Len(forwarded) - Len(to_frontend_queue) + i]

\* C6 witness: two frontend commands forwarded with another message routed
\* between them, both still on the to-frontend queue
C6_Witness ==
    /\ Len(routed) = 3
    /\ IsFrontendCommand(routed[1])
    /\ ~IsFrontendCommand(routed[2])
    /\ IsFrontendCommand(routed[3])
    /\ Len(forwarded) = 2
    /\ Len(to_frontend_queue) = 2

KindOfType(t) ==
    CASE t = "DIGITAL_INPUT" -> "Digital"
      [] t = "ANALOG_INPUT" -> "Analog"
      [] t = "IMU_INPUT" -> "Imu"
      [] OTHER -> "NULL"

InRange(cmd) == cmd.index \in Pins

\* C7 (as claimed): every mapper is absent or Digital, Analog or Imu, absent
\* only if no SET_PIN_TYPE was applied to the pin, and, the last SET_PIN_TYPE
\* applied to a pin being the call just made, of the kind of its pin type.
C7_KindMatchesLastSetPinType ==
    /\ \A p \in Pins :
          /\ mappers[p].kind \in {"NULL", "Digital", "Analog", "Imu"}
          /\ mappers[p] = NullMapper => ~pin_type_applied[p]
    /\ (map_cmd.type = "SET_PIN_TYPE" /\ InRange(map_cmd)) =>
          /\ mappers[map_cmd.index] # NullMapper
          /\ mappers[map_cmd.index].kind = KindOfType(map_cmd.data)

\* C7 (amended): every mapper is absent or Digital, Analog or Imu, its kind
\* matching the pin type of the last SET_PIN_TYPE applied to the pin that
\* returned OK, and absent only if no SET_PIN_TYPE on the pin returned OK.
C7_KindMatchesLastOkSetPinType ==
    \A p \in Pins :
        /\ mappers[p].kind \in {"NULL", "Digital", "Analog", "Imu"}
        /\ mappers[p] = NullMapper <=> last_ok_type[p] = "none"
        /\ mappers[p] # NullMapper =>
               mappers[p].kind = KindOfType(last_ok_type[p])

\* C7 witness: a pin whose last SET_PIN_TYPE (DISABLED) failed after an earlier
\* one succeeded, and whose type was changed before
C7_Witness ==
    \E p \in Pins :
        /\ map_cmd = [type |-> "SET_PIN_TYPE", index |-> p, data |-> "DISABLED"]
        /\ last_ok_type[p] = "IMU_INPUT"
        /\ mappers[p].kind = "Imu"
        /\ \E q \in Pins : q # p /\ mappers[q].kind = "Analog"

\* C8: a command whose pin index is below 0 or above max_n_pins - 1 returns
\* INVALID_PIN_INDEX, whatever its type, and leaves every mapper unchanged.
C8_OutOfRangeRejected ==
    (map_status # "none" /\ ~InRange(map_cmd)) =>
        /\ map_status = "INVALID_PIN_INDEX"
        /\ mappers = map_prev
        /\ ~map_delegated

\* C8 witness: SET_PIN_TYPE at index max_n_pins was rejected while a mapper exists
C8_Witness ==
    /\ map_cmd.type = "SET_PIN_TYPE"
    /\ map_cmd.index = max_n_pins
    /\ map_cmd.data = "DIGITAL_INPUT"
    /\ map_status = "INVALID_PIN_INDEX"
    /\ \E p \in Pins : mappers[p] # NullMapper

\* C9: a command other than SET_PIN_TYPE for an in-range pin reaches a mapper
\* only if an earlier SET_PIN_TYPE on the pin returned OK; otherwise it
\* returns UNINITIALIZED_PIN and changes no mapper.
C9_NoConfigBeforePinType ==
    (map_status # "none" /\ InRange(map_cmd) /\ map_cmd.type # "SET_PIN_TYPE") =>
        /\ map_delegated => last_ok_type[map_cmd.index] # "none"
        /\ last_ok_type[map_cmd.index] = "none" =>
               /\ map_status = "UNINITIALIZED_PIN"
               /\ mappers = map_prev
               /\ ~map_delegated

\* C9 witness: a configuration command was refused on an uninitialised pin
\* while another pin is initialised
C9_Witness ==
    /\ map_cmd.type = "SET_SENDING_MODE"
    /\ InRange(map_cmd)
    /\ map_status = "UNINITIALIZED_PIN"
    /\ \E q \in Pins : mappers[q] # NullMapper

\* C10: SET_PIN_TYPE with a pin type other than DIGITAL_INPUT, ANALOG_INPUT or
\* IMU_INPUT on an in-range pin returns INVALID_VALUE and leaves every mapper
\* as it was.
C10_BadPinTypeRejected ==
    (map_status # "none" /\ InRange(map_cmd) /\ map_cmd.type = "SET_PIN_TYPE"
        /\ map_cmd.data \notin {"DIGITAL_INPUT", "ANALOG_INPUT", "IMU_INPUT"}) =>
        /\ map_status = "INVALID_VALUE"
        /\ mappers = map_prev

\* C10 witness: SET_PIN_TYPE(DISABLED) was refused on a configured pin
C10_Witness ==
    /\ map_cmd.type = "SET_PIN_TYPE"
    /\ map_cmd.data = "DISABLED"
    /\ InRange(map_cmd)
    /\ map_status = "INVALID_VALUE"
    /\ mappers[map_cmd.index].kind = "Analog"
    /\ mappers[map_cmd.index].sending_mode = 1

\* timestamp | (cmd << 32) | (sub_cmd << 48)
UuidByOr(f) ==
    u64_or(u64_or(u64_from_u32(f.timestamp), u64_shl_32(f.cmd)),
           u64_shl_48(f.sub_cmd))

\* C22: extract_uuid is timestamp | (cmd << 32) | (sub_cmd << 48) for a
\* data packet and for an ack packet, and the uuid of a data packet equals
\* the uuid of an ack packet iff the two agree on timestamp, cmd and
\* sub_cmd
C22_UuidIsOrOfFields ==
    /\ uuid_of_data # <<>> => uuid_of_data = UuidByOr(uuid_data)
    /\ uuid_of_ack # <<>> => uuid_of_ack = UuidByOr(uuid_ack)
    /\ (uuid_of_data # <<>> /\ uuid_of_ack # <<>>) =>
           (uuid_of_data = uuid_of_ack <=> uuid_data = uuid_ack)

\* C22 witness: the uuid of a data packet with every field at its maximum,
\* and of an ack that differs from it in sub_cmd only
C22_Witness ==
    /\ uuid_data = [timestamp |-> <<65535, 65535>>, cmd |-> 255, sub_cmd |-> 255]
    /\ uuid_ack = [uuid_data EXCEPT !.sub_cmd = 1]
    /\ uuid_of_data = <<65535, 65535, 255, 255>>
    /\ uuid_of_ack = <<65535, 65535, 255, 1>>

\* C23: a SET_PIN_TYPE on pin p that returned OK leaves at p a mapper of the
\* requested kind in its default configuration, whatever mapper (also one
\* of the same kind, configured) was there before, and leaves the mapper
\* of every other pin as it was
C23_SetPinTypeReplacesMapper ==
    (map_cmd.type = "SET_PIN_TYPE" /\ map_status = "OK") =>
        /\ map_cmd.index \in Pins
        /\ mappers[map_cmd.index] =
               [kind |-> KindOfType(map_cmd.data), sending_mode |-> 0]
        /\ \A q \in Pins \ {map_cmd.index} : mappers[q] = map_prev[q]

\* C23 witness: a digital pin with a sending mode set is given the digital
\* type again, while another pin holds a configured analog mapper
C23_Witness ==
    \E p \in Pins :
        /\ map_cmd = [type |-> "SET_PIN_TYPE", index |-> p, data |-> "DIGITAL_INPUT"]
        /\ map_status = "OK"
        /\ map_prev[p] = [kind |-> "Digital", sending_mode |-> 1]
        /\ mappers[p] = DigitalSensorMapper
        /\ \E q \in Pins \ {p} :
               mappers[q] = [kind |-> "Analog", sending_mode |-> 1]

\* C24: a process call for a value whose pin index is out of range or whose
\* pin has no mapper sends nothing to the output backend, leaves every
\* mapper unchanged and reads no mapper slot outside the array
C24_ProcessUnmappedIsNoOp ==
    (proc_value # NoValue /\ proc_unmapped) =>
        /\ backend_sent = <<>>
        /\ proc_outcome = "logged"
        /\ proc_kept
        /\ ~proc_oob

\* C25: whatever threads call run() and stop(), and however the calls
\* interleave, no reader is started while the previous reader has not
\* exited and no writer while the previous writer has not exited
C25_NoThreadStartedOverLiveOne == overlap = "none"

\* a packet that is not what the board sent: a header that is not the
\* signature, or a crc field that is not the checksum of the packet
IsCorrupt(p) ==
    \/ p.start_header # START_SIGNATURE
    \/ p.stop_header # STOP_SIGNATURE
    \/ p.crc # calculate_crc(p)

\* a packet whose command or pin type create_internal_message has no case
\* for
IsUnhandled(p) ==
    \/ p.cmd \notin {SENSEI_CMD_GET_VALUE, SENSEI_CMD_GET_ALL_VALUES}
    \/ PayloadPinType(p) \notin {PIN_DIGITAL_INPUT, PIN_ANALOG_INPUT}

\* C26: while the frontend is not muted, a read by the reader puts a message
\* on the event queue only if it returned a packet that passes
\* verify_message; a short read or timeout, a corrupt packet and a packet
\* with an unhandled command or pin type put nothing on the queue; and the
\* reader goes back to its loop test after every read
C26_ReaderPushesOnlyVerified ==
    [][ (~muted /\ rpc = "read" /\ rpc' # "read") =>
            /\ rpc' = "loop"
            /\ out_queue' # out_queue =>
                   buffer' # NoPacket /\ verify_message(buffer')
            /\ (buffer' = NoPacket \/ IsCorrupt(buffer') \/ IsUnhandled(buffer')) =>
                   out_queue' = out_queue ]_vars

\* a step in which the owner calls run(), and one in which it calls stop()
RunCalled ==
    cpc = "idle" /\ calls' # calls /\ calls'[Len(calls')] \in {"run", "run_noop"}
StopCalled ==
    cpc = "idle" /\ calls' # calls /\ calls'[Len(calls')] \in {"stop", "stop_noop"}

BothRunning == read_thread_state = "RUNNING" /\ write_thread_state = "RUNNING"

\* C27: run() with both threads RUNNING starts no thread and changes
\* nothing; stop() with a thread not RUNNING returns at once and changes
\* nothing, and that is the state a completed stop() leaves, so a second
\* stop() changes nothing; and a completed run() that was not such a no-op
\* has started one reader and one writer, both live
C27_RunStopIdempotent ==
    /\ [][ /\ (RunCalled /\ BothRunning) =>
                 UNCHANGED <<serialVars, started, overlap>>
           /\ (StopCalled /\ ~BothRunning) =>
                 UNCHANGED <<serialVars, started, overlap>> ]_vars
    /\ []( (calls # <<>> /\ calls[Len(calls)] = "stop" /\ cpc = "idle") =>
              /\ read_thread_state = "STOPPED" /\ write_thread_state = "STOPPED"
              /\ rpc = "none" /\ wpc = "none" )
    /\ []( (calls # <<>> /\ calls[Len(calls)] = "run" /\ cpc = "idle") =>
              /\ started = <<"reader", "writer">>
              /\ rpc \in LivePositions /\ wpc \in LivePositions
              /\ BothRunning
              /\ overlap = "none" )

\* C27 witness: a run() completed after a completed stop(), its reader and
\* writer running
C27_Witness ==
    /\ calls = <<"stop", "run">>
    /\ cpc = "idle"
    /\ started = <<"reader", "writer">>
    /\ rpc = "read" /\ wpc = "wait"

\* C21: no flag shared between the dispatcher and the I/O threads (thread
\* state, connected, muted, verify_acks) is written by one thread while
\* another reads or writes it, unless the flag is atomic or the accesses
\* hold a mutex
C21_NoDataRaceOnFlags == raced = {}

=============================================================================
